---------------------------- MODULE Spec2Model ----------------------------
(***************************************************************************)
(* Model of the one-pass render pipeline of the video podcast renderer:    *)
(*   - exact-duration segment assembly   (render_video_podcast_impl.py)    *)
(*   - the render graph builder's guards (ffmpeg_ops.py)                   *)
(*   - the supervised encoder run        (ffmpeg_progress.py)              *)
(*   - post-hoc output verification      (ffmpeg_ops.py)                   *)
(*                                                                         *)
(* Durations of media are fixed-point numbers, TicksPerSec ticks to the    *)
(* second (0.1 ms), so that the 0.5 ms trim threshold, the 1 ms tolerance  *)
(* and the 100 ms floor are all exact integers.  Wall-clock readings of    *)
(* the supervisor are whole seconds; encoder output time is microseconds,  *)
(* the unit of ffmpeg's out_time_ms progress key.                          *)
(***************************************************************************)
EXTENDS Integers, Sequences, FiniteSets, TLC

(***************************************************************************)
(* Bounds of the model.                                                    *)
(***************************************************************************)
MaxAssets == 3      \* candidate assets returned by the search
MaxErrors == 1      \* download / probe failures injected per assembly
MaxBlocks == 2      \* progress blocks the encoder writes in one run
MaxPipe == 2        \* complete lines the stdout pipe holds unread
MaxWaits == 2       \* timed steps (idle runs, blocked calls) of one run
MaxDedupe == 3      \* entries of the list passed to dedupe_assets
MaxTitle == 4       \* atoms of a title passed to build_tiered_queries
MaxQueries == 2     \* queries passed to apply_sensitive_query_policy
MaxRows == 2        \* rows of videos.csv read by decide_next

(***************************************************************************)
(* Program constants.                                                      *)
(***************************************************************************)
TicksPerSec == 10 * 1000
MIN_ASSET_SEC == 160000        \* 16.0 s
TRIM_EPS == 5                  \* 0.0005 s
MIN_LAST_SEC == 1000           \* 0.1 s
MATCH_TOL == 100               \* 0.01 s
ATTEMPTS_PER_PICK == 5
TARGET_FPS == 30
TIMEOUT_SEC == 7200            \* timeout_sec passed by the render function
STALL_WINDOW_SEC == 240
STALL_GRACE_SEC == 60
SELECT_WAIT_SEC == 1
NEAR_END_US == 250000          \* 0.25 s
ADVANCE_EPS_US == 1000         \* 0.001 s
BACKWARD_US == 2000000         \* the 2 s of the backward-jump warning
GUARD_MARGIN_US == 2000000     \* the 2.0 s of the runaway guard
VERIFY_MIN_BYTES == 512000     \* 500 * 1024
VERIFY_MIN_DUR == 50000        \* 5.0 s
MAIN_DUR_FLOOR == 100          \* 0.01 s
GATE_FPS == 30                 \* target_fps of the final duration gate

(***************************************************************************)
(* Input sets.  File durations: just below the 16 s minimum, and the 25 s, *)
(* 30 s and 40 s clips of the worked scenario.  Audio durations: 47.25 s   *)
(* (the scenario), 29.9997 s (an excess below the trim threshold), 30.05 s *)
(* (a trim that leaves 50 ms) and 130 s (needs cycling and repetition).    *)
(***************************************************************************)
FileDurs == {159999, 250000, 300000, 400000}
AudioDurs == {472500, 299997, 300500, 1300000}
Seeds == {0, 1}

VARIABLES
    \* ---- render_episode, one-pass assembly
    assets,        \* result of search_assets: sequence of asset records
    audio_dur,     \* probed duration of the podcast audio
    seed,          \* seed of rand_for_guid(ep.guid)
    apc,           \* position in render_episode
    aerr,          \* message of the error raised, "" if none
    picks,         \* Tier-1 assets after the shuffle (asset ids)
    attempts, max_attempts, clip_i, d_sum,
    segments,      \* sequence of [path, start_sec, dur_sec]
    prov,          \* provenance, one record per segment
    trimmed,       \* the record of the trim of the last clip, NoTrim if none
    cached,        \* ids of the assets whose raw file exists in raw_dir
    errs,          \* failures injected so far
    rejected,      \* ids of the assets logged as "[clip][reject] vertical"
    run,           \* 0: the episode is rendered once; 1, 2: first and second
                   \*   of two render_episode calls on the same episode
    outcomes,      \* what each attempt of the first of two runs met
    first          \* what the first of two runs ended with

VARIABLES
    \* ---- ffmpeg_render_one_pass_with_intro_outro_and_frame
    rpc,           \* position in the render function
    rerr,          \* error it raised, "" if none
    files,         \* which of the intro/outro, frame and audio files exist
    intro_silence, \* probed duration of the intro/outro asset
    enc_segments,  \* the segment list handed to the render function
    expected_total,\* intro + main + outro, in microseconds
    out_file       \* the output file as verification finds it

VARIABLES
    \* ---- render_episode, verification gates
    gpc,           \* position after the render call: "idle", "accepted", "raised"
    gerr,          \* error the gates raised, "" if none
    final_dur      \* probed duration of the final video

VARIABLES
    \* ---- run_ffmpeg_with_progress
    time_bound,    \* whether the global name "time" resolves in ffmpeg_progress
    clock,         \* wall clock, seconds
    spc,           \* position in run_ffmpeg_with_progress
    serr,          \* error it raised, "" if none
    start_ts, last_progress_ts, last_advance_ts, now,
    last_out_ms, last_out_sec, backward_jumps,
    progress_kv,   \* the key/value pairs of the progress block being read
    proc,          \* "none", "running", "exited"
    rc,            \* exit code of the encoder process
    popens,        \* encoder processes started
    term_sent,     \* p.terminate() calls that reached a live process
    stdout_buf,    \* complete lines written by the encoder, not yet read
    stdout_partial,\* bytes of an unterminated line are pending in the pipe
    blocks,        \* blocks written so far
    waits,         \* timed steps taken so far
    last_stderr_ts,\* when the reader thread last took a line from stderr
    out_log        \* the output times read from progress blocks and whether
                   \*   each restarted the stall window, kept when "on"

avars == <<assets, audio_dur, seed, apc, aerr, picks, attempts, max_attempts,
           clip_i, d_sum, segments, prov, trimmed, cached, errs,
           rejected, run, outcomes, first>>

rvars == <<rpc, rerr, files, intro_silence, enc_segments, expected_total, out_file>>

svars == <<time_bound, clock, spc, serr, start_ts, last_progress_ts, last_advance_ts,
           now, last_out_ms, last_out_sec, backward_jumps, progress_kv, proc, rc,
           popens, term_sent, stdout_buf, stdout_partial, blocks, waits,
           last_stderr_ts, out_log>>

gvars == <<gpc, gerr, final_dur>>

\* ---- dedupe_assets
VARIABLES
    dd_assets,     \* the argument: a sequence of asset records
    dd_i,          \* index of the next entry the loop visits
    seen,          \* key -> index in out
    dd_out,        \* out
    dd_pc          \* "idle", "loop", "done"

ddvars == <<dd_assets, dd_i, seen, dd_out, dd_pc>>

\* ---- build_tiered_queries
VARIABLES
    bq_title,      \* the arguments
    bq_desc,
    bq_max_q,
    bq_lp,         \* location_prefix
    bq_out,        \* the list returned
    bq_pc          \* "idle", "call", "done"

bqvars == <<bq_title, bq_desc, bq_max_q, bq_lp, bq_out, bq_pc>>

\* ---- apply_sensitive_query_policy
VARIABLES
    pl_text,       \* the arguments: title and description,
    pl_queries,    \*   the queries
    pl_max_q,      \*   and the limit
    pl_ret,        \* what the call returned
    pl_ret2,       \* what a second call, on the list returned, returned
    pl_pc          \* "idle", "call", "filtered", "refiltered"

plvars == <<pl_text, pl_queries, pl_max_q, pl_ret, pl_ret2, pl_pc>>

\* ---- sprinkle_positions
VARIABLES
    sp_n_total,    \* the arguments
    sp_n_generic,
    sp_i,          \* i of the first loop
    sp_picks,      \* picks, in the order chosen
    sp_out,        \* the list returned
    sp_pc,         \* "idle", "loop", "done", "placed"
    sp_place       \* how the placing loop of ensure_clips ended, "" before

spvars == <<sp_n_total, sp_n_generic, sp_i, sp_picks, sp_out, sp_pc, sp_place>>

\* ---- decide_next
VARIABLES
    dn_podcasts,   \* ids of the podcasts of podcasts.csv
    dn_mode,       \* queue_mode.json
    dn_rows,       \* the rows of videos.csv, as stored
    dn_out,        \* the decision returned
    dn_pc          \* "idle", "call", "done"

dnvars == <<dn_podcasts, dn_mode, dn_rows, dn_out, dn_pc>>

\* The variables of the functions modelled on their own.
uvars == <<ddvars, bqvars, plvars, spvars, dnvars>>

vars == <<avars, rvars, svars, gvars, uvars>>

\* What a call of one of these functions leaves alone.
dd_rest == <<avars, rvars, svars, gvars, bqvars, plvars, spvars, dnvars>>
bq_rest == <<avars, rvars, svars, gvars, ddvars, plvars, spvars, dnvars>>
pl_rest == <<avars, rvars, svars, gvars, ddvars, bqvars, spvars, dnvars>>
sp_rest == <<avars, rvars, svars, gvars, ddvars, bqvars, plvars, dnvars>>
dn_rest == <<avars, rvars, svars, gvars, ddvars, bqvars, plvars, spvars>>

(***************************************************************************)
(* Helpers.                                                                *)
(***************************************************************************)
Abs(x) == IF x < 0 THEN -x ELSE x

Max(a, b) == IF a >= b THEN a ELSE b

RECURSIVE SumDur(_)
SumDur(s) == IF s = <<>> THEN 0 ELSE s[1].dur_sec + SumDur(Tail(s))

\* round(x, 3) of a duration: to the nearest millisecond (10 ticks).
Round3(x) == ((x + 5) \div 10) * 10

AssetById(id) == CHOOSE a \in {assets[i] : i \in DOMAIN assets} : a.id = id

\* picks = [a for a in assets if int(a.get("tier") or 3) == 1]
Tier1Ids(as) == SelectSeq([i \in DOMAIN as |-> IF as[i].tier = 1 THEN as[i].id ELSE 0],
                          LAMBDA x : x # 0)

(***************************************************************************)
(* rng.shuffle(picks): the Fisher-Yates pass of random.shuffle, from the   *)
(* last index down, each swap index drawn from the generator seeded from   *)
(* the GUID.  The generator is a small linear congruential stand-in for    *)
(* the Mersenne twister: a fixed function of the seed.                     *)
(***************************************************************************)
NextRand(st) == (st * 5 + 3) % 16

Swap(s, i, j) == [s EXCEPT ![i] = s[j], ![j] = s[i]]

RECURSIVE ShuffleFrom(_, _, _)
ShuffleFrom(s, i, st) ==
    IF i <= 1 THEN s
    ELSE ShuffleFrom(Swap(s, i, (NextRand(st) % i) + 1), i - 1, NextRand(st))

Shuffle(s, sd) == ShuffleFrom(s, Len(s), sd)

(***************************************************************************)
(* Faulty variants of operators of the assembly.                           *)
(***************************************************************************)
\* the loop test with <= for <
KeepAcquiring_Inclusive(sum, audio, att, max_att) == sum <= audio /\ att < max_att

\* the loop test without the limit on the attempts
KeepAcquiring_Unbounded(sum, audio, att, max_att) == sum < audio

\* the trimmed duration is not written back to the last segment
NewDur_Untrimmed(last_dur, excess) == last_dur

\* the floor of the trimmed clip only rejects an empty clip
TooShort_OnlyEmpty(new_d) == new_d <= 0

\* the generator is seeded differently in every run
RandForGuid_PerRun(sd, r) == (sd + r) % 16

\* every whole clip is entered with the minimum clip length
FullSegment_FixedClip(a) == [path |-> a.id, start_sec |-> 0, dur_sec |-> MIN_ASSET_SEC]

(***************************************************************************)
(* One-pass assembly: render_episode, "if one_pass:" branch.               *)
(***************************************************************************)
\* while d_sum < audio_dur and attempts < max_attempts
KeepAcquiring(sum, audio, att, max_att) == sum < audio /\ att < max_att

\* excess > 0.0005
NeedsTrim(excess) == excess > TRIM_EPS

\* new_d = last.dur_sec - excess
NewDur(last_dur, excess) == last_dur - excess

\* if new_d < 0.1: raise
TooShort(new_d) == new_d < MIN_LAST_SEC

\* abs(d_sum - audio_dur) > 0.01
Mismatch(sum, audio) == Abs(sum - audio) > MATCH_TOL

\* file_dur < MIN_ASSET_SEC
BelowMinAsset(file_dur) == file_dur < MIN_ASSET_SEC

\* w and h and w < h, with (w, h) = (0, 0) when the probe of the dimensions fails
IsVertical(a, dims_ok) == dims_ok /\ a.vertical

\* rand_for_guid: the seed is taken from the SHA-256 of the GUID alone, so
\* it is the same in every run on the episode.
RandForGuid(sd, r) == sd

FullSegment(a) == [path |-> a.id, start_sec |-> 0, dur_sec |-> a.file_dur]

FullProv(a, ci) == [clip_index |-> ci, mode |-> "full", asset_id |-> a.id, tier |-> 1,
                    start_sec |-> 0, duration_sec |-> Round3(a.file_dur),
                    file_duration_sec |-> Round3(a.file_dur)]

\* trimmed = None
NoTrim == [clip_index |-> 0, trim_sec |-> 0, new_duration_sec |-> 0]

\* No earlier run of render_episode on the episode.
NoRun == [apc |-> "", aerr |-> "", segments |-> <<>>]

NoHistory == rejected = {} /\ run = 0 /\ outcomes = <<>> /\ first = NoRun

AsmRaise(msg) ==
    /\ apc' = "raised"
    /\ aerr' = msg

\* Lines 167-176: the Tier-1 filter, the shuffle and the loop counters.
AsmPick ==
    /\ apc = "pick"
    /\ LET p == Tier1Ids(assets) IN
        IF p = <<>>
        THEN /\ AsmRaise("no Tier-1 assets found")
             /\ UNCHANGED <<picks, attempts, max_attempts, clip_i, d_sum>>
        ELSE /\ picks' = Shuffle(p, RandForGuid(seed, run))
             /\ attempts' = 0
             /\ max_attempts' = Max(1, Len(p)) * ATTEMPTS_PER_PICK
             /\ clip_i' = 1
             /\ d_sum' = 0
             /\ apc' = "acquire"
             /\ aerr' = aerr
    /\ UNCHANGED <<uvars, gvars, rvars, svars, assets, audio_dur, seed, segments, prov, trimmed, cached, errs,
                   rejected, run, outcomes, first>>

\* Lines 177-230: one iteration of the acquisition loop.  ev is what the
\* download and the probes of this attempt do.
AsmAttempt(ev) ==
    /\ apc = "acquire"
    /\ KeepAcquiring(d_sum, audio_dur, attempts, max_attempts)
    /\ LET a == AssetById(picks[(attempts % Len(picks)) + 1]) IN
        /\ attempts' = attempts + 1
        /\ ev # "ok" => (errs < MaxErrors /\ errs' = errs + 1)
        /\ ev = "ok" => errs' = errs
        /\ ev = "download_error" => a.id \notin cached
        /\ ev = "dims_fail" => a.vertical
        /\ ev = "probe_error" => ~a.vertical
        \* the second of two runs meets what the first met
        /\ run = 2 => (attempts < Len(outcomes) /\ ev = outcomes[attempts + 1])
        /\ outcomes' = IF run = 1 THEN Append(outcomes, ev) ELSE outcomes
        /\ rejected' = IF ev # "download_error" /\ IsVertical(a, ev # "dims_fail")
                       THEN rejected \cup {a.id} ELSE rejected
        /\ CASE ev = "download_error" ->
                  \* download() raised: except Exception: continue
                  UNCHANGED <<segments, prov, d_sum, clip_i, cached>>
             [] IsVertical(a, ev # "dims_fail") ->
                  \* vertical: the raw file is unlinked, continue
                  /\ cached' = cached \ {a.id}
                  /\ UNCHANGED <<segments, prov, d_sum, clip_i>>
             [] ~IsVertical(a, ev # "dims_fail") /\ ev = "probe_error" ->
                  \* ffprobe_duration_sec raised: except Exception: continue
                  /\ cached' = cached \cup {a.id}
                  /\ UNCHANGED <<segments, prov, d_sum, clip_i>>
             [] ~IsVertical(a, ev # "dims_fail") /\ ev \in {"ok", "dims_fail"}
                  /\ BelowMinAsset(a.file_dur) ->
                  /\ cached' = cached \cup {a.id}
                  /\ UNCHANGED <<segments, prov, d_sum, clip_i>>
             [] OTHER ->
                  /\ cached' = cached \cup {a.id}
                  /\ segments' = Append(segments, FullSegment(a))
                  /\ prov' = Append(prov, FullProv(a, clip_i))
                  /\ d_sum' = d_sum + a.file_dur
                  /\ clip_i' = clip_i + 1
    /\ UNCHANGED <<uvars, gvars, rvars, svars, assets, audio_dur, seed, apc, aerr, picks, max_attempts, trimmed,
                   run, first>>

\* Line 177 false, line 232: leave the acquisition loop.
AsmAcquireDone ==
    /\ apc = "acquire"
    /\ ~KeepAcquiring(d_sum, audio_dur, attempts, max_attempts)
    /\ apc' = IF d_sum < audio_dur /\ segments # <<>> THEN "repeat" ELSE "trim"
    /\ UNCHANGED <<uvars, gvars, rvars, svars, assets, audio_dur, seed, aerr, picks, attempts, max_attempts,
                   clip_i, d_sum, segments, prov, trimmed, cached, errs,
                   rejected, run, outcomes, first>>

\* Lines 235-264: one iteration of the repetition loop; rep_i = clip_i - 1 - n
\* where n segments were acquired, kept as the count of "repeat" entries.
RepIndex == Cardinality({i \in DOMAIN prov : prov[i].mode = "repeat"})

AsmRepeat ==
    /\ apc = "repeat"
    /\ d_sum < audio_dur
    /\ LET base_seg == segments[(RepIndex % Len(segments)) + 1]
           base_prov == prov[(RepIndex % Len(prov)) + 1]
       IN /\ segments' = Append(segments, base_seg)
          /\ prov' = Append(prov, [base_prov EXCEPT !.clip_index = clip_i,
                                                    !.mode = "repeat"])
          /\ d_sum' = d_sum + base_seg.dur_sec
          /\ clip_i' = clip_i + 1
    /\ UNCHANGED <<uvars, gvars, rvars, svars, assets, audio_dur, seed, apc, aerr, picks, attempts, max_attempts,
                   trimmed, cached, errs, rejected, run, outcomes, first>>

AsmRepeatDone ==
    /\ apc = "repeat"
    /\ ~(d_sum < audio_dur)
    /\ apc' = "trim"
    /\ UNCHANGED <<uvars, gvars, rvars, svars, assets, audio_dur, seed, aerr, picks, attempts, max_attempts,
                   clip_i, d_sum, segments, prov, trimmed, cached, errs,
                   rejected, run, outcomes, first>>

\* Lines 266-285: trim the last clip by the accumulated excess.
AsmTrim ==
    /\ apc = "trim"
    /\ LET excess == d_sum - audio_dur
           n == Len(segments)
       IN IF segments # <<>> /\ NeedsTrim(excess)
          THEN LET new_d == NewDur(segments[n].dur_sec, excess) IN
               IF TooShort(new_d)
               THEN /\ AsmRaise("last clip too short after trim")
                    /\ UNCHANGED <<segments, trimmed, d_sum>>
               ELSE /\ segments' = [segments EXCEPT ![n].dur_sec = new_d]
                    /\ trimmed' = [clip_index |-> prov[n].clip_index,
                                   trim_sec |-> Round3(excess),
                                   new_duration_sec |-> Round3(new_d)]
                    /\ d_sum' = audio_dur
                    /\ apc' = "check"
                    /\ aerr' = aerr
          ELSE /\ apc' = "check"
               /\ UNCHANGED <<aerr, segments, trimmed, d_sum>>
    /\ UNCHANGED <<uvars, gvars, rvars, svars, assets, audio_dur, seed, picks, attempts, max_attempts, clip_i,
                   prov, cached, errs, rejected, run, outcomes, first>>

\* Lines 287-288: the final guard of the assembly.
AsmCheck ==
    /\ apc = "check"
    /\ IF segments = <<>> \/ Mismatch(d_sum, audio_dur)
       THEN AsmRaise("failed to build segments matching audio duration")
       ELSE apc' = "assembled" /\ aerr' = aerr
    /\ UNCHANGED <<uvars, gvars, rvars, svars, assets, audio_dur, seed, picks, attempts, max_attempts, clip_i,
                   d_sum, segments, prov, trimmed, cached, errs,
                   rejected, run, outcomes, first>>

\* render_episode called again on the same episode: the work directory of
\* the earlier call is removed (lines 73-76) and the assembly starts over.
AsmRerun ==
    /\ run = 1
    /\ apc \in {"assembled", "raised"}
    /\ first' = [apc |-> apc, aerr |-> aerr, segments |-> segments]
    /\ run' = 2
    /\ apc' = "pick" /\ aerr' = ""
    /\ picks' = <<>>
    /\ attempts' = 0 /\ max_attempts' = 0 /\ clip_i' = 1 /\ d_sum' = 0
    /\ segments' = <<>> /\ prov' = <<>>
    /\ trimmed' = NoTrim
    /\ cached' = {}
    /\ errs' = 0
    /\ rejected' = {}
    /\ UNCHANGED <<uvars, gvars, rvars, svars, assets, audio_dur, seed, outcomes>>

(***************************************************************************)
(* The render function, ffmpeg_render_one_pass_with_intro_outro_and_frame. *)
(***************************************************************************)
FileNames == {"intro_outro", "frame", "audio"}

\* the floor of a segment's duration only rejects negative durations
SegTooShort_NegativeOnly(du) == du < 0

\* if du <= 0.01: raise ValueError("segment duration too short")
SegTooShort(du) == du <= MAIN_DUR_FLOOR

\* str(seg.get("path") or "") of a segment without a path
NoPath == 0

\* Lines 300-435: the guards before the encoder command is built, in the
\* order of the code; "" when all pass.
BuildError(fs, segs, main_dur, intro, outro) ==
    IF "intro_outro" \notin fs THEN "intro/outro mp4 not found"
    ELSE IF "frame" \notin fs THEN "frame png not found"
    ELSE IF "audio" \notin fs THEN "podcast audio not found"
    ELSE IF segs = <<>> THEN "no segments provided"
    ELSE IF main_dur <= MAIN_DUR_FLOOR THEN "main duration is invalid"
    ELSE IF intro < 0 \/ outro < 0 THEN "intro/outro silence duration is invalid"
    ELSE IF \E i \in DOMAIN segs : segs[i].path = NoPath THEN "segment missing path"
    ELSE IF \E i \in DOMAIN segs : SegTooShort(segs[i].dur_sec)
         THEN "segment duration too short"
    ELSE ""

\* expected_total = intro_silence_sec + main_dur_sec + outro_silence_sec
ExpectedTotalUs(intro, main_dur, outro) == (intro + main_dur + outro) * 100

\* render_episode lines 318-334 calling the render function, lines 300-495.
RenderCall ==
    /\ apc = "assembled" /\ rpc = "idle"
    /\ enc_segments' = segments
    /\ expected_total' = ExpectedTotalUs(intro_silence, audio_dur, intro_silence)
    /\ LET e == BuildError(files, segments, audio_dur, intro_silence, intro_silence)
       IN IF e = "" THEN rpc' = "run" /\ rerr' = rerr
          ELSE rpc' = "raised" /\ rerr' = e
    /\ UNCHANGED <<uvars, gvars, avars, svars, files, intro_silence, out_file>>

(***************************************************************************)
(* Faulty variants of operators of the supervised run and of verification. *)
(***************************************************************************)
\* the guard with twice the margin and no frame periods
Runaway_WideMargin(out_sec, total, fps) == out_sec - total > 2 * GUARD_MARGIN_US

\* every progress event restarts the stall window
Advanced_AnyProgress(out_sec, last) == TRUE

\* p.terminate() is never called
Terminate_Never == term_sent' = term_sent

\* the exit code is not looked at
ExitFailed_Never(code) == FALSE

\* the duration of the output is not compared with its floor
VerifyOutputMedia_NoDurFloor(f, min_bytes, min_dur_sec) ==
    IF ~f.exists THEN "ffmpeg did not produce output"
    ELSE IF f.size < min_bytes THEN "ffmpeg output too small"
    ELSE IF ~f.probeable THEN "ffmpeg output is not probeable"
    ELSE ""

(***************************************************************************)
(* run_ffmpeg_with_progress.                                               *)
(***************************************************************************)
\* time.time() - start_ts > float(timeout_sec)
TimedOut(t, start, timeout) == t - start > timeout

\* near_end = last_out_sec >= float(expected_total_sec) - 0.25
NearEnd(out_sec, total) == out_sec >= total - NEAR_END_US

\* (not near_end) and now - last_advance_ts >= 240.0 and now - start_ts >= 60.0
Stalled(t, adv, start, near) ==
    (~near) /\ t - adv >= STALL_WINDOW_SEC /\ t - start >= STALL_GRACE_SEC

\* out_sec > last_out_sec + 0.001
Advanced(out_sec, last) == out_sec > last + ADVANCE_EPS_US

\* last_out_ms >= 0 and out_ms + 2000000 < last_out_ms
MovedBackward(out_ms, last) == last >= 0 /\ out_ms + BACKWARD_US < last

\* out_sec > expected_total_sec + 2.0 + 2.0 / max(1, target_fps), in exact arithmetic
Runaway(out_sec, total, fps) ==
    (out_sec - total - GUARD_MARGIN_US) * Max(1, fps) > 2 * 1000000

\* No output time logged, the log off and on.
NoLog == [on |-> FALSE, seq |-> <<>>]

EmptyLog == [on |-> TRUE, seq |-> <<>>]

\* A value of out_time_ms: a number of microseconds when the text is all digits;
\* NonDigit for any other text (as "N/A"), NoValue when the key is absent.
NonDigit == -1

NoValue == -2

NoKv == [progress |-> "", out_time_ms |-> NoValue]

\* p.terminate(): a signal reaches the process only while it runs.
Terminate == term_sent' = IF proc = "running" THEN term_sent + 1 ELSE term_sent

SupRaise(msg) ==
    /\ spc' = "finally"
    /\ serr' = msg

SupDone == spc \in {"returned", "raised"}

\* if rc != 0
ExitFailed(code) == code # 0

\* Lines 35-130.  The module reads the global name "time" (line 41) and has
\* no "import time": where the name is unbound the call raises NameError
\* before the process is created.
SupStart ==
    /\ rpc = "run" /\ spc = "idle"
    /\ IF ~time_bound
       THEN /\ spc' = "raised" /\ serr' = "NameError"
            /\ UNCHANGED <<start_ts, last_progress_ts, last_advance_ts, now, last_out_ms,
                           last_out_sec, backward_jumps, progress_kv, proc, popens,
                           last_stderr_ts>>
       ELSE /\ start_ts' = clock
            /\ last_stderr_ts' = clock
            /\ last_out_ms' = -1
            /\ backward_jumps' = 0
            /\ last_progress_ts' = clock
            /\ last_advance_ts' = clock
            /\ last_out_sec' = -1000000
            /\ proc' = "running"
            /\ popens' = popens + 1
            /\ progress_kv' = NoKv
            /\ spc' = "top"
            /\ UNCHANGED <<serr, now>>
    /\ UNCHANGED <<uvars, gvars, avars, rvars, time_bound, out_log, clock, rc, term_sent, stdout_buf,
                   stdout_partial, blocks, waits>>

\* Lines 132-137: the timeout check at the top of the loop.
SupTop ==
    /\ spc = "top"
    /\ IF TimedOut(clock, start_ts, TIMEOUT_SEC)
       THEN Terminate /\ SupRaise("ffmpeg timeout exceeded")
       ELSE spc' = "select" /\ UNCHANGED <<serr, term_sent>>
    /\ UNCHANGED <<uvars, gvars, avars, rvars, time_bound, last_stderr_ts, out_log, clock, start_ts, last_progress_ts,
                   last_advance_ts, now, last_out_ms, last_out_sec, backward_jumps,
                   progress_kv, proc, rc, popens, stdout_buf, stdout_partial, blocks, waits>>

\* select() reports the pipe readable: data pending, or end of file.
Readable == stdout_buf # <<>> \/ stdout_partial \/ proc = "exited"

\* Lines 161-177: the stall check, on the time read after select().
StallCheck(t, next) ==
    IF Stalled(t, last_advance_ts, start_ts, NearEnd(last_out_sec, expected_total))
    THEN Terminate /\ SupRaise("ffmpeg stalled: out_time not advancing")
    ELSE spc' = next /\ UNCHANGED <<serr, term_sent>>

\* Lines 140-178 when select() returns at once with the pipe readable.
SupSelectReady ==
    /\ spc = "select"
    /\ Readable
    /\ now' = clock
    /\ StallCheck(clock, "readline")
    /\ UNCHANGED <<uvars, gvars, avars, rvars, time_bound, last_stderr_ts, out_log, clock, start_ts, last_progress_ts,
                   last_advance_ts, last_out_ms, last_out_sec, backward_jumps, progress_kv,
                   proc, rc, popens, stdout_buf, stdout_partial, blocks, waits>>

\* The first second at which the timeout or the stall check trips if nothing
\* is read meanwhile.
Deadline ==
    LET t_out == start_ts + TIMEOUT_SEC + 1
        t_stall == Max(last_advance_ts + STALL_WINDOW_SEC, start_ts + STALL_GRACE_SEC)
    IN IF NearEnd(last_out_sec, expected_total) \/ t_out < t_stall THEN t_out ELSE t_stall

\* Lines 131-181 when select() times out: k successive iterations in which
\* nothing is readable and the process is alive, each a wait of 1.0 s, taken
\* as one step.  Only the last of them may trip a check: the k - 1 before it
\* passed the stall check and the timeout check.
IdleRuns == {1, 60, 240}

\* The run of idle iterations that ends at the deadline.
DeadlineRun == Max(1, Deadline - clock)

SupSelectIdle(k) ==
    /\ spc = "select"
    /\ ~Readable
    /\ k >= 1
    /\ k > 1 => /\ ~TimedOut(clock + (k - 1) * SELECT_WAIT_SEC, start_ts, TIMEOUT_SEC)
                /\ ~Stalled(clock + (k - 1) * SELECT_WAIT_SEC, last_advance_ts, start_ts,
                            NearEnd(last_out_sec, expected_total))
    /\ \/ k = DeadlineRun /\ waits' = waits
       \/ k \in IdleRuns /\ waits < MaxWaits /\ waits' = waits + 1
    /\ clock' = clock + k * SELECT_WAIT_SEC
    /\ now' = clock'
    /\ StallCheck(clock', "poll")
    /\ UNCHANGED <<uvars, gvars, avars, rvars, time_bound, last_stderr_ts, out_log, start_ts, last_progress_ts, last_advance_ts,
                   last_out_ms, last_out_sec, backward_jumps, progress_kv, proc, rc,
                   popens, stdout_buf, stdout_partial, blocks>>

\* Lines 178-181: nothing readable; leave the loop if the process has ended.
SupPoll ==
    /\ spc = "poll"
    /\ spc' = IF proc = "exited" THEN "wait" ELSE "top"
    /\ UNCHANGED <<uvars, gvars, avars, rvars, time_bound, last_stderr_ts, out_log, clock, serr, start_ts, last_progress_ts,
                   last_advance_ts, now, last_out_ms, last_out_sec, backward_jumps,
                   progress_kv, proc, rc, popens, term_sent, stdout_buf, stdout_partial,
                   blocks, waits>>

\* progress_kv[k.strip()] = v.strip()
StoreLine(kv, line) ==
    IF line.k = "progress" THEN [kv EXCEPT !.progress = line.s]
    ELSE IF line.k = "out_time_ms" THEN [kv EXCEPT !.out_time_ms = line.n]
    ELSE kv

\* out_ms_s.isdigit()
IsDigits(v) == v >= 0

\* Lines 183-187 at end of file: readline() returns "".
SupReadEof ==
    /\ spc = "readline"
    /\ stdout_buf = <<>> /\ ~stdout_partial /\ proc = "exited"
    /\ spc' = "wait"
    /\ UNCHANGED <<uvars, gvars, avars, rvars, time_bound, last_stderr_ts, out_log, clock, serr, start_ts, last_progress_ts,
                   last_advance_ts, now, last_out_ms, last_out_sec, backward_jumps,
                   progress_kv, proc, rc, popens, term_sent, stdout_buf, stdout_partial,
                   blocks, waits>>

\* Lines 183-193 when the process has ended leaving an unterminated line:
\* readline() returns the fragment, which is no key of a progress block
\* (progress_kv holds no "progress" between blocks), and the loop goes on.
SupReadFragment ==
    /\ spc = "readline"
    /\ stdout_buf = <<>> /\ stdout_partial /\ proc = "exited"
    /\ spc' = "top"
    /\ stdout_partial' = FALSE
    /\ UNCHANGED <<uvars, gvars, avars, rvars, time_bound, last_stderr_ts, out_log, clock, serr, start_ts, last_progress_ts,
                   last_advance_ts, now, last_out_ms, last_out_sec, backward_jumps,
                   progress_kv, proc, rc, popens, term_sent, stdout_buf, blocks, waits>>

\* Lines 183-264: readline() returns a complete line, which is processed.
SupReadLine ==
    /\ spc = "readline"
    /\ stdout_buf # <<>>
    /\ stdout_buf' = Tail(stdout_buf)
    /\ LET kv == StoreLine(progress_kv, Head(stdout_buf))
           out == kv.out_time_ms
       IN IF kv.progress \in {"continue", "end"}
          THEN /\ last_progress_ts' = clock
               /\ progress_kv' = NoKv
               /\ IF IsDigits(out)
                  THEN /\ backward_jumps' = IF MovedBackward(out, last_out_ms)
                                            THEN backward_jumps + 1 ELSE backward_jumps
                       /\ last_out_ms' = out
                       /\ last_advance_ts' = IF Advanced(out, last_out_sec)
                                             THEN clock ELSE last_advance_ts
                       /\ last_out_sec' = out
                       /\ IF Runaway(out, expected_total, TARGET_FPS)
                          THEN Terminate /\ SupRaise("ffmpeg runaway duration detected")
                          ELSE /\ spc' = IF kv.progress = "end" THEN "wait" ELSE "top"
                               /\ UNCHANGED <<serr, term_sent>>
                  ELSE /\ spc' = IF kv.progress = "end" THEN "wait" ELSE "top"
                       /\ UNCHANGED <<serr, term_sent, backward_jumps, last_out_ms,
                                      last_advance_ts, last_out_sec>>
          ELSE /\ progress_kv' = kv
               /\ spc' = "top"
               /\ UNCHANGED <<serr, term_sent, last_progress_ts, backward_jumps,
                              last_out_ms, last_advance_ts, last_out_sec>>
    /\ out_log' = LET kv == StoreLine(progress_kv, Head(stdout_buf)) IN
                  IF out_log.on /\ kv.progress \in {"continue", "end"} /\ IsDigits(kv.out_time_ms)
                  THEN [out_log EXCEPT !.seq = Append(@, [out |-> kv.out_time_ms,
                            adv |-> Advanced(kv.out_time_ms, last_out_sec)])]
                  ELSE out_log
    /\ UNCHANGED <<uvars, gvars, avars, rvars, time_bound, last_stderr_ts, clock, start_ts, now, proc, rc, popens,
                   stdout_partial, blocks, waits>>

\* Lines 266-269: p.wait() returns once the process has ended.  A non-zero
\* exit code reaches line 268, where slicing the deque raises TypeError.
SupWait ==
    /\ spc = "wait"
    /\ proc = "exited"
    /\ spc' = "finally"
    /\ serr' = IF ExitFailed(rc) THEN "TypeError" ELSE serr
    /\ UNCHANGED <<uvars, gvars, avars, rvars, time_bound, last_stderr_ts, out_log, clock, start_ts, last_progress_ts,
                   last_advance_ts, now, last_out_ms, last_out_sec, backward_jumps,
                   progress_kv, proc, rc, popens, term_sent, stdout_buf, stdout_partial,
                   blocks, waits>>

\* Lines 270-286: the finally block; then the function returns or re-raises.
SupFinally ==
    /\ spc = "finally"
    /\ Terminate
    /\ spc' = IF serr = "" THEN "returned" ELSE "raised"
    /\ UNCHANGED <<uvars, gvars, avars, rvars, time_bound, last_stderr_ts, out_log, clock, serr, start_ts, last_progress_ts,
                   last_advance_ts, now, last_out_ms, last_out_sec, backward_jumps,
                   progress_kv, proc, rc, popens, stdout_buf, stdout_partial, blocks, waits>>

\* The supervisor is inside a call that does not return yet: readline() on
\* an unterminated line, or p.wait() on a live process.
Blocked ==
    \/ spc = "readline" /\ stdout_buf = <<>> /\ proc = "running"
    \/ spc = "wait" /\ proc = "running"

BlockedSecs == {1, 240, 7200}

\* Wall-clock time passing while the supervisor is blocked.
SupBlocked(d) ==
    /\ Blocked
    /\ waits < MaxWaits
    /\ waits' = waits + 1
    /\ clock' = clock + d
    /\ UNCHANGED <<uvars, gvars, avars, rvars, time_bound, last_stderr_ts, out_log, spc, serr, start_ts, last_progress_ts,
                   last_advance_ts, now, last_out_ms, last_out_sec, backward_jumps,
                   progress_kv, proc, rc, popens, term_sent, stdout_buf, stdout_partial,
                   blocks>>

(***************************************************************************)
(* The encoder process, as far as the supervisor observes it.  It writes   *)
(* progress blocks to stdout (each an out_time_ms line, then a progress    *)
(* line), may leave a line unterminated, and ends with an exit code.       *)
(***************************************************************************)
\* Time passes only while the supervisor waits (in select, or blocked), so the
\* encoder's steps are taken there, and between select and poll.
Supervised == proc = "running" /\ (spc \in {"select", "poll"} \/ Blocked)

OutLine(v) == [k |-> "out_time_ms", n |-> v, s |-> ""]

ProgLine(p) == [k |-> "progress", n |-> 0, s |-> p]

\* Output times an encoder may report for an expected total e (microseconds):
\* early ones 1 ms apart, the two sides of the near-end point, the two sides
\* of the runaway guard.
OutTimes(e) == {1000000, 1001000, e - NEAR_END_US - 1, e - NEAR_END_US,
                e + GUARD_MARGIN_US + 66666, e + GUARD_MARGIN_US + 66667}

Blocks(e) ==
    {<<OutLine(v), ProgLine("continue")>> : v \in OutTimes(e) \cup {NonDigit}}
    \cup {<<OutLine(v), ProgLine("end")>> : v \in {e, e + GUARD_MARGIN_US + 66667}}
    \cup {<<ProgLine("continue")>>, <<[k |-> "frame", n |-> 1, s |-> ""]>>}

EncWrite(b) ==
    /\ Supervised
    /\ blocks < MaxBlocks
    /\ Len(stdout_buf) + Len(b) <= MaxPipe
    /\ blocks' = blocks + 1
    /\ stdout_buf' = stdout_buf \o b
    /\ stdout_partial' = FALSE
    /\ UNCHANGED <<uvars, gvars, avars, rvars, time_bound, last_stderr_ts, out_log, clock, spc, serr, start_ts, last_progress_ts,
                   last_advance_ts, now, last_out_ms, last_out_sec, backward_jumps,
                   progress_kv, proc, rc, popens, term_sent, waits>>

EncWritePartial ==
    /\ Supervised
    /\ blocks < MaxBlocks
    /\ ~stdout_partial
    /\ blocks' = blocks + 1
    /\ stdout_partial' = TRUE
    /\ UNCHANGED <<uvars, gvars, avars, rvars, time_bound, last_stderr_ts, out_log, clock, spc, serr, start_ts, last_progress_ts,
                   last_advance_ts, now, last_out_ms, last_out_sec, backward_jumps,
                   progress_kv, proc, rc, popens, term_sent, stdout_buf, waits>>

EncExit(code) ==
    /\ Supervised
    /\ proc' = "exited"
    /\ rc' = code
    /\ UNCHANGED <<uvars, gvars, avars, rvars, time_bound, last_stderr_ts, out_log, clock, spc, serr, start_ts, last_progress_ts,
                   last_advance_ts, now, last_out_ms, last_out_sec, backward_jumps,
                   progress_kv, popens, term_sent, stdout_buf, stdout_partial, blocks, waits>>

\* An encoder that only reports output times of 5 s and 10 s, in any order,
\* one block more than EncWrite allows.
ReportTimes == {5000000, 10000000}

EncReport(v) ==
    /\ Supervised
    /\ blocks < MaxBlocks + 1
    /\ Len(stdout_buf) + 2 <= MaxPipe
    /\ blocks' = blocks + 1
    /\ stdout_buf' = stdout_buf \o <<OutLine(v), ProgLine("continue")>>
    /\ stdout_partial' = FALSE
    /\ UNCHANGED <<uvars, gvars, avars, rvars, time_bound, last_stderr_ts, out_log, clock, spc, serr, start_ts, last_progress_ts,
                   last_advance_ts, now, last_out_ms, last_out_sec, backward_jumps,
                   progress_kv, proc, rc, popens, term_sent, waits>>

\* _stderr_reader, lines 102-119: the reader thread takes a line the encoder
\* wrote to stderr.
StderrLine ==
    /\ Supervised
    /\ last_stderr_ts' = clock
    /\ UNCHANGED <<uvars, gvars, avars, rvars, time_bound, out_log, clock, spc, serr, start_ts, last_progress_ts,
                   last_advance_ts, now, last_out_ms, last_out_sec, backward_jumps,
                   progress_kv, proc, rc, popens, term_sent, stdout_buf, stdout_partial,
                   blocks, waits>>

(***************************************************************************)
(* Post-hoc verification, and the end of the render function.              *)
(***************************************************************************)
\* _verify_output_media(p, min_bytes, min_dur_sec): "" when it returns, else
\* the error it raises.  f describes the file: exists, size, probeable, dur.
VerifyOutputMedia(f, min_bytes, min_dur_sec) ==
    IF ~f.exists THEN "ffmpeg did not produce output"
    ELSE IF f.size < min_bytes THEN "ffmpeg output too small"
    ELSE IF ~f.probeable THEN "ffmpeg output is not probeable"
    ELSE IF f.dur < min_dur_sec THEN "ffmpeg output duration too short"
    ELSE ""

\* Output files: a good one, and files that miss one requirement each, among
\* them a 2 KB file that probes to 0.2 s.
OutFile(x, sz, pr, d) == [exists |-> x, size |-> sz, probeable |-> pr, dur |-> d]

OutFiles == {OutFile(TRUE, 512000, TRUE, 50000),
             OutFile(FALSE, 0, FALSE, 0),
             OutFile(TRUE, 511999, TRUE, 50000),
             OutFile(TRUE, 512000, FALSE, 0),
             OutFile(TRUE, 512000, TRUE, 49999),
             OutFile(TRUE, 2048, TRUE, 2000)}

\* Line 496 returning, lines 497-498: verify the output, return (cmd, expected_total).
RenderVerify(f) ==
    /\ rpc = "run" /\ spc = "returned"
    /\ out_file' = f
    /\ LET e == VerifyOutputMedia(f, VERIFY_MIN_BYTES, VERIFY_MIN_DUR)
       IN IF e = "" THEN rpc' = "returned" /\ rerr' = rerr
          ELSE rpc' = "raised" /\ rerr' = e
    /\ UNCHANGED <<uvars, gvars, avars, svars, files, intro_silence, enc_segments, expected_total>>

\* Line 496 raising: the error of the supervisor leaves the render function.
RenderFail ==
    /\ rpc = "run" /\ spc = "raised"
    /\ rpc' = "raised"
    /\ rerr' = serr
    /\ UNCHANGED <<uvars, gvars, avars, svars, files, intro_silence, enc_segments, expected_total, out_file>>

(***************************************************************************)
(* render_episode, step 5: the duration gate on the final video, before    *)
(* the video is copied out and the manifest is written.                    *)
(***************************************************************************)
\* tol = max(0.25, (2.0 / target_fps) + 0.05)
FinalTol(fps) == Max(TicksPerSec \div 4, (2 * TicksPerSec) \div fps + TicksPerSec \div 20)

\* Lines 359-366: "" when the gate passes, else the error raised.
FinalGateError(d, expected, tol) ==
    IF Abs(d - expected) > tol THEN "final duration mismatch"
    ELSE IF d > expected + tol THEN "final duration exceeds expected total"
    ELSE ""

\* Output files that pass verification, with durations around an expected
\* total e: exact, one frame period off (333 ticks is the last value within
\* 1/30 s), just beyond one frame, at the 0.25 s tolerance and beyond it.
FinalFiles(e) ==
    {OutFile(TRUE, VERIFY_MIN_BYTES, TRUE, e + d) : d \in {0, 333, 334, 2500, 2501, -2501}}

\* Lines 353-373: probe the final video, apply the gate, accept the render.
FinalGate ==
    /\ rpc = "returned" /\ gpc = "idle"
    /\ final_dur' = out_file.dur
    /\ LET e == FinalGateError(out_file.dur, expected_total \div 100, FinalTol(GATE_FPS))
       IN IF e = "" THEN gpc' = "accepted" /\ gerr' = gerr
          ELSE gpc' = "raised" /\ gerr' = e
    /\ UNCHANGED <<uvars, avars, rvars, svars>>

(***************************************************************************)
(* dedupe_assets (sources.py).                                             *)
(***************************************************************************)
\* the lower tier never replaces the entry kept
Replaces_Never(tier, prev_tier) == FALSE

\* key = "%s:%s" % (a.get("source"), a.get("asset_id"))
AssetKey(a) == <<a.source, ":", a.asset_id>>

\* tier = int(a.get("tier") or 3)
TierOf(a) == IF a.tier = 0 THEN 3 ELSE a.tier

\* if tier < prev_tier
Replaces(tier, prev_tier) == tier < prev_tier

\* Lines 407-417: one iteration of the loop over the input.
DedupeStep ==
    /\ dd_pc = "loop"
    /\ dd_i <= Len(dd_assets)
    /\ LET a == dd_assets[dd_i]
           key == AssetKey(a)
       IN IF key \in DOMAIN seen
          THEN /\ dd_out' = IF Replaces(TierOf(a), TierOf(dd_out[seen[key]]))
                            THEN [dd_out EXCEPT ![seen[key]] = a]
                            ELSE dd_out
               /\ seen' = seen
          ELSE /\ seen' = [k \in DOMAIN seen \cup {key} |->
                             IF k = key THEN Len(dd_out) + 1 ELSE seen[k]]
               /\ dd_out' = Append(dd_out, a)
    /\ dd_i' = dd_i + 1
    /\ UNCHANGED <<dd_rest, dd_assets, dd_pc>>

\* Line 418: return out.
DedupeReturn ==
    /\ dd_pc = "loop"
    /\ dd_i > Len(dd_assets)
    /\ dd_pc' = "done"
    /\ UNCHANGED <<dd_rest, dd_assets, dd_i, seen, dd_out>>

\* Arguments: entries as pexels_search and pixabay_search build them, with
\* the tier search_assets sets; n tells the entries of one key apart.
DedupeShapes == [source : {"pexels"}, asset_id : {1, 2}, tier : {1, 2, 3}]
                  \cup [source : {"pixabay"}, asset_id : {1}, tier : {1, 2, 3}]

DedupeInputs ==
    UNION {{[i \in 1..n |-> [source |-> f[i].source, asset_id |-> f[i].asset_id,
                              tier |-> f[i].tier, n |-> i]] :
            f \in [1..n -> DedupeShapes]} : n \in 0..MaxDedupe}

DedupeIdle ==
    /\ dd_assets = <<>> /\ dd_i = 1 /\ seen = <<>> /\ dd_out = <<>> /\ dd_pc = "idle"

(***************************************************************************)
(* Text.  A string is a sequence of atoms: a word (a maximal run of        *)
(* letters and digits, written as in the source text), the blank " " or    *)
(* the punctuation mark "!".  In the strings the program is given no two   *)
(* word atoms stand next to each other.                                    *)
(***************************************************************************)
Blank == " "

\* [a-zA-Z0-9]: everything but white space and punctuation
IsWord(a) == a \notin {" ", "!", "-"}

\* str.lower(), atom by atom
LowerAtom(a) ==
    CASE a = "Title" -> "title"
      [] a = "Sex" -> "sex"
      [] OTHER -> a

StrLower(s) == IF s = <<>> THEN <<>> ELSE [i \in 1..Len(s) |-> LowerAtom(s[i])]

InSeq(x, s) == \E i \in 1..Len(s) : s[i] = x

Min(a, b) == IF a < b THEN a ELSE b

RECURSIVE LStrip(_)
LStrip(s) == IF s # <<>> /\ Head(s) = Blank THEN LStrip(Tail(s)) ELSE s

Rev(s) == IF s = <<>> THEN <<>> ELSE [i \in 1..Len(s) |-> s[Len(s) + 1 - i]]

\* str.strip()
Strip(s) == Rev(LStrip(Rev(LStrip(s))))

RECURSIVE SplitAcc(_, _, _)
SplitAcc(s, cur, acc) ==
    IF s = <<>>
    THEN IF cur = <<>> THEN acc ELSE Append(acc, cur)
    ELSE IF Head(s) = Blank
         THEN SplitAcc(Tail(s), <<>>, IF cur = <<>> THEN acc ELSE Append(acc, cur))
         ELSE SplitAcc(Tail(s), Append(cur, Head(s)), acc)

\* str.split(): the maximal runs without white space
Split(s) == SplitAcc(s, <<>>, <<>>)

RECURSIVE Join(_)
\* " ".join(tokens)
Join(toks) ==
    IF toks = <<>> THEN <<>>
    ELSE IF Len(toks) = 1 THEN toks[1]
    ELSE toks[1] \o <<Blank>> \o Join(Tail(toks))

\* " ".join((s or "").strip().split())
NormalizeSpaces(s) == Join(Split(s))

\* re.sub(r"[^a-zA-Z0-9\s]", " ", t), then " ".join(t.split()).strip()
CleanForTokens(s) ==
    IF s = <<>> THEN <<>>
    ELSE Strip(Join(Split([i \in 1..Len(s) |-> IF IsWord(s[i]) THEN s[i] ELSE Blank])))

\* _stop_words(): the members that occur in the texts considered
StopWords == {"that", "with"}

\* the words of the texts considered that have fewer than 4 characters
ShortWords == {"new", "sex"}

\* the lower-case words of the texts considered, in the order of sorted()
Alphabetical == <<"essex", "new", "news", "sex", "sexual", "studio", "that", "title", "with", "word">>

\* a token of a cleaned text is one word
IsStop(tok) == Len(tok) = 1 /\ LowerAtom(tok[1]) \in StopWords

TokRank(tok) == CHOOSE i \in 1..Len(Alphabetical) : Alphabetical[i] = tok[1]

MAX_PHRASES == 6
MAX_K == 10

\* for n in [4, 3, 2]: for i in range(0, max(0, len(words) - n + 1))
WindowsOf(n, len) == IF len - n + 1 <= 0 THEN <<>> ELSE [i \in 1..(len - n + 1) |-> <<n, i>>]

Windows(len) == WindowsOf(4, len) \o WindowsOf(3, len) \o WindowsOf(2, len)

\* a window is skipped when all its words, or all but one, are stop words
SkipWindow(seg) ==
    LET n == Len(seg)
        stops == Cardinality({j \in 1..n : IsStop(seg[j])})
    IN stops = n \/ stops >= n - 1

RECURSIVE PhraseLoop(_, _, _, _, _)
PhraseLoop(words, wins, k, phrases, max_phrases) ==
    IF k > Len(wins)
    THEN SubSeq(phrases, 1, Min(max_phrases, Len(phrases)))
    ELSE LET n == wins[k][1]
             i == wins[k][2]
             seg == SubSeq(words, i, i + n - 1)
         IN IF SkipWindow(seg)
            THEN PhraseLoop(words, wins, k + 1, phrases, max_phrases)
            ELSE LET ph == Strip(Join(seg))
                     p2 == IF ph # <<>> /\ ~InSeq(ph, phrases)
                           THEN Append(phrases, ph) ELSE phrases
                 IN IF Len(p2) >= max_phrases
                    THEN SubSeq(p2, 1, max_phrases)
                    ELSE PhraseLoop(words, wins, k + 1, p2, max_phrases)

\* phrases.append(title.strip())
FirstPhrase_Cleaned(title) == CleanForTokens(title)

FirstPhrase(title) == Strip(title)

\* _title_phrases(title, max_phrases)
TitlePhrases(title, max_phrases) ==
    LET t == CleanForTokens(title)
        words == Split(t)
    IN IF t = <<>> THEN <<>>
       ELSE PhraseLoop(words, Windows(Len(words)), 1, <<FirstPhrase(title)>>, max_phrases)

\* len(w) >= 4 and w not in stop
IsKeyword(w) == ~(Len(w) = 1 /\ w[1] \in ShortWords) /\ ~IsStop(w)

RECURSIVE Ranked(_, _)
\* sorted(freq.items(), key=lambda x: (-x[1], x[0]))
Ranked(S, words) ==
    IF S = {} THEN <<>>
    ELSE LET freq(w) == Cardinality({j \in 1..Len(words) : words[j] = w})
             best == CHOOSE w \in S : \A v \in S :
                        \/ freq(w) > freq(v)
                        \/ freq(w) = freq(v) /\ TokRank(w) <= TokRank(v)
         IN <<best>> \o Ranked(S \ {best}, words)

\* _keywords(text, max_k)
Keywords(text, max_k) ==
    LET t == StrLower(CleanForTokens(text))
        words == SelectSeq(Split(t), IsKeyword)
        ranked == Ranked({words[j] : j \in 1..Len(words)}, words)
    IN IF t = <<>> THEN <<>> ELSE SubSeq(ranked, 1, Min(max_k, Len(ranked)))

RECURSIVE AddNew(_, _)
\* for x in xs: if x and x not in acc: acc.append(x)
AddNew(acc, xs) ==
    IF xs = <<>> THEN acc
    ELSE AddNew(IF Head(xs) # <<>> /\ ~InSeq(Head(xs), acc) THEN Append(acc, Head(xs)) ELSE acc,
                Tail(xs))

\* the generic fallbacks of lines 276-283
Generics ==
    << <<"podcast", " ", "microphone">>, <<"news", " ", "studio">>, <<"city", " ", "skyline">>,
       <<"world", " ", "map">>, <<"finance", " ", "chart">>, <<"crowd", " ", "street">> >>

RECURSIVE Items(_, _)
\* for q in t: if q: out.append({"tier": tier, "query": q})
Items(t, tier) ==
    IF t = <<>> THEN <<>>
    ELSE (IF Head(t) # <<>> THEN <<[tier |-> tier, query |-> Head(t)]>> ELSE <<>>)
            \o Items(Tail(t), tier)

\* key = q.lower()
SeenKey_CaseSensitive(q) == q

SeenKey(q) == StrLower(q)

RECURSIVE DedLoop(_, _, _, _, _, _)
\* Lines 299-314: the loop that prefixes, deduplicates and truncates.
DedLoop(out, k, seenq, ded, lp, max_q) ==
    IF k > Len(out) THEN ded
    ELSE LET q0 == NormalizeSpaces(out[k].query)
             q == IF lp # <<>> THEN NormalizeSpaces(lp \o <<Blank>> \o q0) ELSE q0
             key == SeenKey(q)
         IN IF q = <<>> \/ key \in seenq
            THEN DedLoop(out, k + 1, seenq, ded, lp, max_q)
            ELSE LET d2 == Append(ded, [tier |-> out[k].tier, query |-> q])
                 IN IF Len(d2) >= max_q THEN d2
                    ELSE DedLoop(out, k + 1, seenq \cup {key}, d2, lp, max_q)

\* Lines 267-297: the three tiers in order, before deduplication.
TieredOut(title0, desc0) ==
    LET title == Strip(title0)
        desc == Strip(desc0)
        t1 == IF title # <<>> THEN TitlePhrases(title, MAX_PHRASES) ELSE <<>>
        kw == Keywords(title \o <<Blank>> \o desc, MAX_K)
        t2 == AddNew(AddNew(<<>>, kw), IF t1 = <<>> THEN <<>> ELSE Tail(t1))
        t3 == AddNew(<<>>, Generics)
    IN Items(t1, 1) \o Items(t2, 2) \o Items(t3, 3)

\* build_tiered_queries(title, desc, max_q, location_prefix)
BuildTieredQueries(title0, desc0, max_q, location_prefix) ==
    DedLoop(TieredOut(title0, desc0), 1, {}, <<>>, Strip(location_prefix), max_q)

\* The call and its return.
BuildQueriesCall ==
    /\ bq_pc = "call"
    /\ bq_out' = BuildTieredQueries(bq_title, bq_desc, bq_max_q, bq_lp)
    /\ bq_pc' = "done"
    /\ UNCHANGED <<bq_rest, bq_title, bq_desc, bq_max_q, bq_lp>>

\* Titles: every string of up to MaxTitle atoms, and a few longer ones with
\* four and five words.
TitleAtoms == {"Title", "title", "word", "that", "new", " ", "!"}

WellFormed(s) == \A i \in 1..(Len(s) - 1) : ~(IsWord(s[i]) /\ IsWord(s[i + 1]))

LongTitles ==
    { <<"Title", " ", "word", " ", "word">>,
      <<"Title", "!", " ", "word", " ">>,
      <<"Title", " ", "word", " ", "new", " ", "that">>,
      <<"Title", " ", "word", " ", "new", " ", "title", " ", "word">>,
      <<"that", " ", "with", " ", "Title", " ", "word">> }

Titles ==
    {s \in UNION {[1..n -> TitleAtoms] : n \in 0..MaxTitle} : WellFormed(s)} \cup LongTitles

Descs == {<<>>, <<"news", " ", "studio", " ", "word", "!", " ", "word">>}

Prefixes == {<<>>, <<"new", " ", "york", " ", "city">>}

MaxQs == {1, 3, 12}

QueriesIdle ==
    /\ bq_title = <<>> /\ bq_desc = <<>> /\ bq_max_q = 0 /\ bq_lp = <<>>
    /\ bq_out = <<>> /\ bq_pc = "idle"

(***************************************************************************)
(* apply_sensitive_query_policy                                            *)
(***************************************************************************)
\* a phrase of single words separated by single blanks
Phrase(ws) == Join([i \in 1..Len(ws) |-> <<ws[i]>>])

\* sorted(_SENSITIVE_TERMS)
SortedTerms ==
    <<"brothel", "escort", "fetish", "nude", "nudity", "onlyfans", "porn", "pornography",
      "prostitution", "sex", "sexual", "trafficking">>

\* _SENSITIVE_PROXY_QUERIES.get(t, [])
ProxyQueries(t) ==
    CASE t = "prostitution" ->
            << Phrase(<<"city", "streets", "at", "night">>),
               Phrase(<<"police", "patrol", "car", "lights">>),
               Phrase(<<"courthouse", "steps">>),
               Phrase(<<"social", "services", "office">>),
               Phrase(<<"public", "safety", "community", "outreach">>),
               Phrase(<<"subway", "station", "at", "night">>),
               Phrase(<<"city", "skyline", "night">>),
               Phrase(<<"interview", "microphone", "street">>) >>
      [] t = "trafficking" ->
            << Phrase(<<"police", "investigation">>), Phrase(<<"courthouse", "steps">>),
               Phrase(<<"community", "outreach">>), Phrase(<<"public", "safety">>) >>
      [] t = "sex" ->
            << Phrase(<<"city", "streets", "at", "night">>), Phrase(<<"courthouse", "steps">>),
               Phrase(<<"public", "safety">>) >>
      [] t = "porn" ->
            << Phrase(<<"computer", "screen", "blur">>), Phrase(<<"internet", "safety">>),
               Phrase(<<"data", "privacy">>) >>
      [] t = "nude" ->
            << Phrase(<<"city", "skyline">>), Phrase(<<"street", "interview">>) >>
      [] OTHER -> <<>>

\* the lower-case words of the texts considered that hold the characters of t
Superstrings(t) ==
    CASE t = "sex" -> {"sex", "sexual", "essex"}
      [] t = "porn" -> {"porn", "pornography"}
      [] OTHER -> {t}

\* term_l in hay_l: a term has no blank, so it lies within one word
ContainsTerm(hay, t) == \E i \in 1..Len(hay) : LowerAtom(hay[i]) \in Superstrings(t)

\* _detect_sensitive_terms(title, desc)
DetectSensitiveTerms(title, desc) ==
    LET text == title \o <<Blank>> \o desc
        Found(t) == ContainsTerm(text, t)
    IN SelectSeq(SortedTerms, Found)

\* _location_prefix(title, desc); of its triggers the texts considered hold
\* "new york" only
LocationPrefix(title, desc) ==
    LET text == StrLower(title \o <<Blank>> \o desc)
    IN IF \E i \in 1..(Len(text) - 2) : SubSeq(text, i, i + 2) = <<"new", " ", "york">>
       THEN Phrase(<<"new", "york", "city">>)
       ELSE <<>>

\* the pattern matches the exact spelling only
RemoveWord_CaseSensitive(qq, t) == [i \in 1..Len(qq) |-> IF qq[i] = t THEN Blank ELSE qq[i]]

\* re.sub(r"\b" + re.escape(t) + r"\b", " ", qq, flags=re.IGNORECASE)
RemoveWord(qq, t) == [i \in 1..Len(qq) |-> IF LowerAtom(qq[i]) = t THEN Blank ELSE qq[i]]

RECURSIVE RemoveFound(_, _, _, _, _)
\* Lines 112-116: the loop over the matched terms, for one query.
RemoveFound(qq, qq_l, found, k, changed) ==
    IF k > Len(found) THEN [qq |-> qq, changed |-> changed]
    ELSE IF ContainsTerm(qq_l, found[k])
         THEN RemoveFound(RemoveWord(qq, found[k]), qq_l, found, k + 1, TRUE)
         ELSE RemoveFound(qq, qq_l, found, k + 1, changed)

RECURSIVE FilterLoop(_, _, _, _, _)
\* Lines 108-127: the loop over the original queries.
FilterLoop(orig, k, found, filtered, dropped) ==
    IF k > Len(orig) THEN [filtered |-> filtered, dropped |-> dropped]
    ELSE LET q == orig[k]
             padded == <<Blank>> \o q \o <<Blank>>
             r == RemoveFound(padded, StrLower(padded), found, 1, FALSE)
             qq == NormalizeSpaces(r.qq)
         IN IF qq = <<>> \/ (r.changed /\ Len(Split(qq)) < 2)
            THEN FilterLoop(orig, k + 1, found, filtered, Append(dropped, q))
            ELSE FilterLoop(orig, k + 1, found,
                            IF InSeq(qq, filtered) THEN filtered ELSE Append(filtered, qq),
                            dropped)

RECURSIVE ProxyRaw(_, _)
\* for t in found: proxy_raw += _SENSITIVE_PROXY_QUERIES.get(t, [])
ProxyRaw(found, k) ==
    IF k > Len(found) THEN <<>> ELSE ProxyQueries(found[k]) \o ProxyRaw(found, k + 1)

RECURSIVE ProxyLoop(_, _, _, _, _)
\* Lines 138-147: prefix the proxies and drop repetitions, ignoring case.
ProxyLoop(raw, k, prefix, seenp, proxies) ==
    IF k > Len(raw) THEN proxies
    ELSE LET p0 == NormalizeSpaces(raw[k])
             pp == IF prefix # <<>> THEN NormalizeSpaces(prefix \o <<Blank>> \o p0) ELSE p0
         IN IF p0 = <<>> \/ StrLower(pp) \in seenp
            THEN ProxyLoop(raw, k + 1, prefix, seenp, proxies)
            ELSE ProxyLoop(raw, k + 1, prefix, seenp \cup {StrLower(pp)}, Append(proxies, pp))

RECURSIVE TakeFiltered(_, _, _, _)
\* Lines 151-154
TakeFiltered(filtered, k, combined, max_q) ==
    IF k > Len(filtered) THEN combined
    ELSE LET c2 == Append(combined, filtered[k])
         IN IF Len(c2) >= max_q THEN c2 ELSE TakeFiltered(filtered, k + 1, c2, max_q)

\* every proxy is appended
Absent_Always(p, combined) == TRUE

\* if p not in combined
Absent(p, combined) == ~InSeq(p, combined)

RECURSIVE TakeProxies(_, _, _, _)
\* Lines 156-160
TakeProxies(proxies, k, combined, max_q) ==
    IF k > Len(proxies) THEN combined
    ELSE LET c2 == IF Absent(proxies[k], combined) THEN Append(combined, proxies[k]) ELSE combined
         IN IF Len(c2) >= max_q THEN c2 ELSE TakeProxies(proxies, k + 1, c2, max_q)

\* orig = [q for q in (queries or []) if (q or "").strip()]
NotBlank(q) == Strip(q) # <<>>

\* apply_sensitive_query_policy(title, desc, queries, max_q): the list
\* returned and the entries of the policy record
ApplySensitiveQueryPolicy(title, desc, queries, max_q) ==
    LET orig == SelectSeq(queries, NotBlank)
        found == DetectSensitiveTerms(title, desc)
        prefix == LocationPrefix(title, desc)
        f == FilterLoop(orig, 1, found, <<>>, <<>>)
        proxies == IF found # <<>> THEN ProxyLoop(ProxyRaw(found, 1), 1, prefix, {}, <<>>) ELSE <<>>
        c1 == TakeFiltered(f.filtered, 1, <<>>, max_q)
        combined == IF Len(c1) < max_q THEN TakeProxies(proxies, 1, c1, max_q) ELSE c1
    IN [combined |-> combined, matched_terms |-> found, queries_original |-> orig,
        queries_dropped |-> f.dropped, proxy_queries_added |-> proxies]

NoPolicy ==
    [combined |-> <<>>, matched_terms |-> <<>>, queries_original |-> <<>>,
     queries_dropped |-> <<>>, proxy_queries_added |-> <<>>]

\* The call on the queries given.
PolicyCall ==
    /\ pl_pc = "call"
    /\ pl_ret' = ApplySensitiveQueryPolicy(pl_text.title, pl_text.desc, pl_queries, pl_max_q)
    /\ pl_pc' = "filtered"
    /\ UNCHANGED <<pl_rest, pl_text, pl_queries, pl_max_q, pl_ret2>>

\* A second call, on the list the first call returned.
PolicyAgain ==
    /\ pl_pc = "filtered"
    /\ pl_ret2' = ApplySensitiveQueryPolicy(pl_text.title, pl_text.desc, pl_ret.combined, pl_max_q)
    /\ pl_pc' = "refiltered"
    /\ UNCHANGED <<pl_rest, pl_text, pl_queries, pl_max_q, pl_ret>>

\* Episode texts: without a term, with "sex" as a word of the title, with
\* "sexual" (which holds "sex") and a location in the description.
PolicyTexts ==
    { [title |-> <<"news">>, desc |-> <<>>],
      [title |-> <<"Sex", " ", "news">>, desc |-> <<>>],
      [title |-> <<"news">>, desc |-> <<"sexual", " ", "new", " ", "york">>] }

\* Queries: a term as a word in either spelling, within a longer word, next
\* to punctuation, alone, with other terms; unnormalised, blank and proxy text.
QueryStrings ==
    { <<"news">>,
      <<"Sex", " ", "news">>,
      <<"news", " ", "sex", " ", "studio">>,
      <<"essex">>,
      <<"essex", " ", "news">>,
      <<"Sex", "-", "news">>,
      <<"sex", " ", "sexual">>,
      <<"sexual", " ", "news", " ", "studio">>,
      <<" ", "news", " ", " ", "studio", " ">>,
      <<" ">>,
      Phrase(<<"courthouse", "steps">>) }

QueryLists == UNION {[1..n -> QueryStrings] : n \in 0..MaxQueries}

PolicyMaxQs == {1, 2, 12}

PolicyIdle ==
    /\ pl_text = [title |-> <<>>, desc |-> <<>>] /\ pl_queries = <<>> /\ pl_max_q = 0
    /\ pl_ret = NoPolicy /\ pl_ret2 = NoPolicy /\ pl_pc = "idle"

(***************************************************************************)
(* sprinkle_positions                                                      *)
(***************************************************************************)
\* int(round(num / den)): to the nearest integer, a half to the even one
RoundHalfEven(num, den) ==
    LET q == num \div den
        r == num % den
    IN IF 2 * r > den \/ (2 * r = den /\ q % 2 = 1) THEN q + 1 ELSE q

\* Lines 39-46: the bucket of the i-th pick
BucketLo(i, n_total, n_generic) == Max(0, RoundHalfEven(i * n_total, n_generic))

BucketHi(i, n_total, n_generic) ==
    Max(BucketLo(i, n_total, n_generic),
        Min(n_total - 1, RoundHalfEven((i + 1) * n_total, n_generic) - 1))

\* Lines 52-61: the nearest free index, the higher one first
Resolve(cand, used, n_total) ==
    LET Free(c) == c >= 0 /\ c < n_total /\ c \notin used
        ds == {d \in 1..(n_total - 1) : Free(cand + d) \/ Free(cand - d)}
        d == CHOOSE x \in ds : \A y \in ds : x <= y
    IN IF cand \notin used \/ ds = {} THEN cand
       ELSE IF Free(cand + d) THEN cand + d ELSE cand - d

\* neighbours are left alone
Adjacent_Never(cand, last) == FALSE

\* cand == adjusted[-1] + 1
Adjacent(cand, last) == cand = last + 1

Ascending(a, b) == a < b

RECURSIVE AdjustLoop(_, _, _, _)
\* Lines 66-75: move a pick that follows its predecessor directly
AdjustLoop(sorted, k, adjusted, n_total) ==
    IF k > Len(sorted) THEN adjusted
    ELSE LET p == sorted[k]
             used2 == {adjusted[j] : j \in 1..Len(adjusted)}
             cand == IF adjusted # <<>> /\ Adjacent(p, adjusted[Len(adjusted)])
                     THEN IF p + 1 < n_total /\ (p + 1) \notin used2 THEN p + 1
                          ELSE IF p - 1 >= 0 /\ (p - 1) \notin used2 THEN p - 1
                          ELSE p
                     ELSE p
         IN AdjustLoop(sorted, k + 1, Append(adjusted, cand), n_total)

\* Lines 30-33: nothing to place, or every index is taken.
SprinkleEarly ==
    /\ sp_pc = "loop"
    /\ sp_n_total <= 0 \/ sp_n_generic <= 0 \/ sp_n_generic >= sp_n_total
    /\ sp_out' = IF sp_n_total <= 0 \/ sp_n_generic <= 0 THEN <<>>
                 ELSE [j \in 1..sp_n_total |-> j - 1]
    /\ sp_pc' = "done"
    /\ UNCHANGED <<sp_rest, sp_n_total, sp_n_generic, sp_i, sp_picks, sp_place>>

\* Lines 38-63: one pick; r is what rng.randint(lo, hi) returns.
SprinklePick(r) ==
    /\ sp_pc = "loop"
    /\ ~(sp_n_total <= 0 \/ sp_n_generic <= 0 \/ sp_n_generic >= sp_n_total)
    /\ sp_i < sp_n_generic
    /\ LET lo == BucketLo(sp_i, sp_n_total, sp_n_generic)
           hi == BucketHi(sp_i, sp_n_total, sp_n_generic)
           used == {sp_picks[j] : j \in 1..Len(sp_picks)}
       IN /\ IF hi > lo THEN r \in lo..hi ELSE r = lo
          /\ sp_picks' = Append(sp_picks, Resolve(r, used, sp_n_total))
    /\ sp_i' = sp_i + 1
    /\ UNCHANGED <<sp_rest, sp_n_total, sp_n_generic, sp_out, sp_pc, sp_place>>

\* Lines 65-77: sort, separate neighbours, sort again, return.
SprinkleReturn ==
    /\ sp_pc = "loop"
    /\ ~(sp_n_total <= 0 \/ sp_n_generic <= 0 \/ sp_n_generic >= sp_n_total)
    /\ sp_i = sp_n_generic
    /\ sp_out' = SortSeq(AdjustLoop(SortSeq(sp_picks, Ascending), 1, <<>>, sp_n_total), Ascending)
    /\ sp_pc' = "done"
    /\ UNCHANGED <<sp_rest, sp_n_total, sp_n_generic, sp_i, sp_picks, sp_place>>

RECURSIVE PlaceLoop(_, _, _, _, _, _, _)
\* ensure_clips lines 223-232: position i takes the next generic clip when i
\* is in gset, else the next main clip; indexing a list past its end raises
\* IndexError.
PlaceLoop(i, need, gset, mi, gi, n_main, n_gen) ==
    IF i = need THEN "placed"
    ELSE IF i \in gset
         THEN IF gi >= n_gen THEN "IndexError"
              ELSE PlaceLoop(i + 1, need, gset, mi, gi + 1, n_main, n_gen)
         ELSE IF mi >= n_main THEN "IndexError"
              ELSE PlaceLoop(i + 1, need, gset, mi + 1, gi, n_main, n_gen)

\* ensure_clips lines 204-232, called with need = n_total clips wanted of
\* which need - generic_needed are main clips and generic_needed generic.
EnsureClipsPlace ==
    /\ sp_pc = "done"
    /\ sp_n_total >= 1 /\ sp_n_generic >= 0 /\ sp_n_generic < sp_n_total
    /\ sp_place' = PlaceLoop(0, sp_n_total, {sp_out[j] : j \in 1..Len(sp_out)}, 0, 0,
                             sp_n_total - sp_n_generic, sp_n_generic)
    /\ sp_pc' = "placed"
    /\ UNCHANGED <<sp_rest, sp_n_total, sp_n_generic, sp_i, sp_picks, sp_out>>

\* (n_total, n_generic): ten clips with three or four generic ones, five
\* with three, and the calls that return at once
SprinkleArgs == {<<10, 3>>, <<10, 4>>, <<5, 3>>, <<3, 3>>, <<0, 3>>}

\* what rng.randint can return for these arguments
RandValues == 0..9

SprinkleIdle ==
    /\ sp_n_total = 0 /\ sp_n_generic = 0 /\ sp_i = 0 /\ sp_picks = <<>>
    /\ sp_out = <<>> /\ sp_pc = "idle" /\ sp_place = ""

(***************************************************************************)
(* decide_next (check_queue.py) on the rows of videos.csv.  Podcast ids    *)
(* and GUIDs are numbers ordered as the strings are; published_at is a     *)
(* timestamp, or BadDate for a value parsedate_to_datetime rejects.        *)
(***************************************************************************)
BadDate == -1

\* _rfc822_ts: the timestamp, 0.0 when the date does not parse
RfcTs(p) == IF p = BadDate THEN 0 ELSE p

\* key(r) of _sort_videos: (pid, ts, guid), compared as tuples
KeyBefore(a, b) ==
    \/ a.podcast_id < b.podcast_id
    \/ /\ a.podcast_id = b.podcast_id
       /\ \/ RfcTs(a.published_at) < RfcTs(b.published_at)
          \/ /\ RfcTs(a.published_at) = RfcTs(b.published_at)
             /\ a.episode_guid < b.episode_guid

\* _sort_videos, and load_videos which returns its result
SortVideos(rows) == SortSeq(rows, KeyBefore)

\* pick_default_podcast_id: sorted(podcasts.keys())[0]
PickDefaultPodcastId(podcasts) == CHOOSE p \in podcasts : \A q \in podcasts : p <= q

\* _active_podcasts
ActivePodcasts(podcasts, mode) ==
    IF mode.run_all_podcasts THEN podcasts
    ELSE IF mode.podcast_id # 0 /\ mode.podcast_id \in podcasts THEN {mode.podcast_id}
    ELSE {PickDefaultPodcastId(podcasts)}

\* the render loop visits no row
RenderBacklog_None(rows) == <<>>

\* lines 64-65: the rows whose rendered_asset_name is empty
RenderBacklog(rows) == SelectSeq(rows, LAMBDA r : r.rendered_asset_name = "")

\* lines 78-79: the rows whose youtube_id is empty
UploadBacklog(rows) == SelectSeq(rows, LAMBDA r : r.youtube_id = "")

Decision(action, r, reason) ==
    [action |-> action, podcast_id |-> r.podcast_id, guid |-> r.episode_guid, reason |-> reason]

NoDecision(reason) == [action |-> "none", podcast_id |-> 0, guid |-> 0, reason |-> reason]

DecideNext(podcasts, mode, stored) ==
    LET active == ActivePodcasts(podcasts, mode)
        rows == SelectSeq(SortVideos(stored), LAMBDA r : r.podcast_id \in active)
    IN IF rows = <<>> THEN NoDecision("no_rows=1")
       ELSE IF RenderBacklog(rows) # <<>>
            THEN Decision("render", RenderBacklog(rows)[1], "pending_render=1")
       ELSE IF UploadBacklog(rows) # <<>>
            THEN Decision("upload", UploadBacklog(rows)[1], "all_rendered=1 not_uploaded=1")
       ELSE NoDecision("all_done=1")

DecideCall ==
    /\ dn_pc = "call"
    /\ dn_out' = DecideNext(dn_podcasts, dn_mode, dn_rows)
    /\ dn_pc' = "done"
    /\ UNCHANGED <<dn_rest, dn_podcasts, dn_mode, dn_rows>>

\* A row of videos.csv: pending, rendered, or rendered and uploaded.
RowShapes ==
    {[podcast_id |-> p, published_at |-> d, rendered_asset_name |-> s[1], youtube_id |-> s[2]] :
        p \in {1, 2}, d \in {BadDate, 1, 2},
        s \in {<<"", "">>, <<"v.mp4", "">>, <<"v.mp4", "yt">>}}

\* The rows as stored: one per GUID, in the file in descending GUID order.
RowLists ==
    UNION {{[i \in 1..n |-> [podcast_id |-> f[i].podcast_id, published_at |-> f[i].published_at,
                             episode_guid |-> n + 1 - i,
                             rendered_asset_name |-> f[i].rendered_asset_name,
                             youtube_id |-> f[i].youtube_id]] :
            f \in [1..n -> RowShapes]} : n \in 0..MaxRows}

\* queue_mode.json: every podcast, a named podcast (3 is not in
\* podcasts.csv), or none named.
QueueModes ==
    {[run_all_podcasts |-> TRUE, podcast_id |-> 0]}
    \cup {[run_all_podcasts |-> FALSE, podcast_id |-> p] : p \in 0..3}

PodcastSets == {{1}, {1, 2}}

DecideIdle ==
    /\ dn_podcasts = {} /\ dn_mode = [run_all_podcasts |-> FALSE, podcast_id |-> 0]
    /\ dn_rows = <<>> /\ dn_out = NoDecision("") /\ dn_pc = "idle"

\* The functions modelled on their own are not running, g excepted.
UtilIdleBut(g) ==
    /\ g = "dd" \/ DedupeIdle
    /\ g = "bq" \/ QueriesIdle
    /\ g = "pl" \/ PolicyIdle
    /\ g = "sp" \/ SprinkleIdle
    /\ g = "dn" \/ DecideIdle

UtilIdle == UtilIdleBut("")

(***************************************************************************)
(* Initial states of the assembly: what search_assets returned (distinct   *)
(* assets; only Tier-1 assets are ever downloaded and probed, so only      *)
(* they carry probe results; tier 2 stands for every tier other than 1),   *)
(* the audio duration and the seed.                                        *)
(***************************************************************************)
AssetShapes ==
    [tier : {1}, vertical : {FALSE}, file_dur : FileDurs]
    \cup [tier : {1}, vertical : {TRUE}, file_dur : {300000}]
    \cup [tier : {2}, vertical : {FALSE}, file_dur : {300000}]

AssetLists ==
    UNION {{[i \in 1..n |-> [id |-> i, tier |-> f[i].tier, vertical |-> f[i].vertical,
                             file_dur |-> f[i].file_dur]] :
            f \in [1..n -> AssetShapes]} : n \in 1..MaxAssets}

AsmInit ==
    /\ assets \in AssetLists
    /\ audio_dur \in AudioDurs
    /\ seed \in Seeds
    /\ apc = "pick"
    /\ aerr = ""
    /\ picks = <<>>
    /\ attempts = 0 /\ max_attempts = 0 /\ clip_i = 1 /\ d_sum = 0
    /\ segments = <<>> /\ prov = <<>>
    /\ trimmed = NoTrim
    /\ cached = {}
    /\ errs = 0
    /\ rejected = {} /\ outcomes = <<>> /\ first = NoRun

RenderIdle ==
    /\ rpc = "idle" /\ rerr = ""
    /\ enc_segments = <<>>
    /\ expected_total = 0
    /\ out_file = [exists |-> FALSE, size |-> 0, probeable |-> FALSE, dur |-> 0]

GateIdle ==
    /\ gpc = "idle" /\ gerr = "" /\ final_dur = 0

SupIdle ==
    /\ clock = 0
    /\ spc = "idle" /\ serr = ""
    /\ start_ts = 0 /\ last_progress_ts = 0 /\ last_advance_ts = 0 /\ now = 0
    /\ last_out_ms = -1 /\ last_out_sec = -1000000 /\ backward_jumps = 0
    /\ progress_kv = NoKv
    /\ proc = "none" /\ rc = 0 /\ popens = 0 /\ term_sent = 0
    /\ last_stderr_ts = 0
    /\ stdout_buf = <<>> /\ stdout_partial = FALSE
    /\ blocks = 0 /\ waits = 0

\* The state in which render_episode has assembled one whole 25 s clip for
\* an audio track of 25 s and is about to call the render function.
SupAssembled ==
    /\ assets = <<[id |-> 1, tier |-> 1, vertical |-> FALSE, file_dur |-> 250000]>>
    /\ audio_dur = 250000
    /\ seed = 0
    /\ apc = "assembled" /\ aerr = ""
    /\ picks = <<1>>
    /\ attempts = 1 /\ max_attempts = 5 /\ clip_i = 2 /\ d_sum = 250000
    /\ segments = <<FullSegment(assets[1])>>
    /\ prov = <<FullProv(assets[1], 1)>>
    /\ trimmed = NoTrim
    /\ cached = {1}
    /\ errs = 0
    /\ NoHistory

IntroDurs == {25000}

InitAsm ==
    /\ AsmInit /\ RenderIdle /\ SupIdle /\ GateIdle /\ UtilIdle
    /\ run = 0
    /\ files = FileNames
    /\ intro_silence \in IntroDurs
    /\ time_bound = TRUE
    /\ out_log = NoLog

\* Two calls of render_episode on one episode, the search returning the
\* same assets.
InitTwin ==
    /\ AsmInit /\ RenderIdle /\ SupIdle /\ GateIdle /\ UtilIdle
    /\ Len(assets) < MaxAssets
    /\ run = 1
    /\ files = FileNames
    /\ intro_silence \in IntroDurs
    /\ time_bound = TRUE
    /\ out_log = NoLog

InitSup ==
    /\ SupAssembled /\ RenderIdle /\ SupIdle /\ GateIdle /\ UtilIdle
    \* the intro/outro asset and the audio were probed by render_episode before
    \* the call, so they exist; the frame may be missing
    /\ files \in {FileNames, FileNames \ {"frame"}}
    /\ intro_silence \in IntroDurs
    /\ time_bound \in BOOLEAN
    /\ out_log = NoLog

\* The same call, the encoder's reports logged.
InitStall ==
    /\ SupAssembled /\ RenderIdle /\ SupIdle /\ GateIdle /\ UtilIdle
    /\ files = FileNames
    /\ intro_silence \in IntroDurs
    /\ time_bound = TRUE
    /\ out_log = EmptyLog

\* Direct calls of the render function: any subset of the three files
\* present; segment lists that are empty, lack a path, or hold a duration
\* that is negative, zero, 0.01 s or just above it; a main duration at the
\* 0.01 s floor; a negative silence duration.
Seg(p, d) == [path |-> p, start_sec |-> 0, dur_sec |-> d]

GraphSegLists ==
    {<<>>, <<Seg(1, 250000)>>, <<Seg(1, 0)>>, <<Seg(1, -10)>>, <<Seg(1, MAIN_DUR_FLOOR)>>,
     <<Seg(1, MAIN_DUR_FLOOR + 1)>>, <<Seg(1, 250000), Seg(2, 0)>>, <<Seg(NoPath, 250000)>>}

InitGraph ==
    /\ assets = <<[id |-> 1, tier |-> 1, vertical |-> FALSE, file_dur |-> 250000],
                  [id |-> 2, tier |-> 1, vertical |-> FALSE, file_dur |-> 250000]>>
    /\ audio_dur \in {250000, MAIN_DUR_FLOOR}
    /\ seed = 0
    /\ apc = "assembled" /\ aerr = ""
    /\ picks = <<1, 2>>
    /\ attempts = 0 /\ max_attempts = 10 /\ clip_i = 1 /\ d_sum = 0
    /\ segments \in GraphSegLists
    /\ prov = <<>>
    /\ trimmed = NoTrim
    /\ cached = {}
    /\ errs = 0
    /\ NoHistory
    /\ RenderIdle /\ SupIdle /\ GateIdle /\ UtilIdle
    /\ files \in SUBSET FileNames
    /\ intro_silence \in {25000, 0, -1}
    /\ time_bound = TRUE
    /\ out_log = NoLog

GraphNext ==
    \/ RenderCall
    \/ SupStart

\* The supervised run with an encoder that reports 5 s and 10 s and writes
\* to stderr.
StallNext ==
    \/ RenderCall
    \/ SupStart
    \/ SupTop
    \/ SupSelectReady
    \/ \E k \in IdleRuns \cup {DeadlineRun} : SupSelectIdle(k)
    \/ SupPoll
    \/ SupReadLine
    \/ SupFinally
    \/ \E v \in ReportTimes : EncReport(v)
    \/ StderrLine

\* The program stopped before the episode is rendered.
RenderEpisodeIdle ==
    /\ assets = <<>> /\ audio_dur = 0 /\ seed = 0
    /\ apc = "idle" /\ aerr = ""
    /\ picks = <<>>
    /\ attempts = 0 /\ max_attempts = 0 /\ clip_i = 1 /\ d_sum = 0
    /\ segments = <<>> /\ prov = <<>>
    /\ trimmed = NoTrim
    /\ cached = {}
    /\ errs = 0
    /\ NoHistory
    /\ RenderIdle /\ SupIdle /\ GateIdle
    /\ files = FileNames
    /\ intro_silence = 0
    /\ time_bound = TRUE
    /\ out_log = NoLog

InitDedupe ==
    /\ RenderEpisodeIdle /\ UtilIdleBut("dd")
    /\ dd_assets \in DedupeInputs
    /\ dd_i = 1 /\ seen = <<>> /\ dd_out = <<>> /\ dd_pc = "loop"

DedupeNext ==
    \/ DedupeStep
    \/ DedupeReturn

InitQueries ==
    /\ RenderEpisodeIdle /\ UtilIdleBut("bq")
    /\ bq_title \in Titles
    /\ bq_desc \in Descs
    /\ bq_max_q \in MaxQs
    /\ bq_lp \in Prefixes
    /\ bq_out = <<>> /\ bq_pc = "call"

QueriesNext == BuildQueriesCall

InitPolicy ==
    /\ RenderEpisodeIdle /\ UtilIdleBut("pl")
    /\ pl_text \in PolicyTexts
    /\ pl_queries \in QueryLists
    /\ pl_max_q \in PolicyMaxQs
    /\ pl_ret = NoPolicy /\ pl_ret2 = NoPolicy /\ pl_pc = "call"

PolicyNext ==
    \/ PolicyCall
    \/ PolicyAgain

InitSprinkle ==
    /\ RenderEpisodeIdle /\ UtilIdleBut("sp")
    /\ \E a \in SprinkleArgs : sp_n_total = a[1] /\ sp_n_generic = a[2]
    /\ sp_i = 0 /\ sp_picks = <<>> /\ sp_out = <<>> /\ sp_pc = "loop" /\ sp_place = ""

SprinkleNext ==
    \/ SprinkleEarly
    \/ \E r \in RandValues : SprinklePick(r)
    \/ SprinkleReturn
    \/ EnsureClipsPlace

InitDecide ==
    /\ RenderEpisodeIdle /\ UtilIdleBut("dn")
    /\ dn_podcasts \in PodcastSets
    /\ dn_mode \in QueueModes
    /\ dn_rows \in RowLists
    /\ dn_out = NoDecision("") /\ dn_pc = "call"

DecideNextStep ==
    \/ DecideCall

AsmNext ==
    \/ AsmPick
    \/ \E ev \in {"ok", "download_error", "dims_fail", "probe_error"} : AsmAttempt(ev)
    \/ AsmAcquireDone
    \/ AsmRepeat
    \/ AsmRepeatDone
    \/ AsmTrim
    \/ AsmCheck
    \/ RenderCall
    \/ SupStart

TwinNext ==
    \/ AsmPick
    \/ \E ev \in {"ok", "download_error", "dims_fail", "probe_error"} : AsmAttempt(ev)
    \/ AsmAcquireDone
    \/ AsmRepeat
    \/ AsmRepeatDone
    \/ AsmTrim
    \/ AsmCheck
    \/ AsmRerun

SupNext ==
    \/ RenderCall
    \/ SupStart
    \/ SupTop
    \/ SupSelectReady
    \/ \E k \in IdleRuns \cup {DeadlineRun} : SupSelectIdle(k)
    \/ SupPoll
    \/ SupReadEof
    \/ SupReadFragment
    \/ SupReadLine
    \/ SupWait
    \/ SupFinally
    \/ \E d \in BlockedSecs : SupBlocked(d)
    \/ \E b \in Blocks(expected_total) : EncWrite(b)
    \/ EncWritePartial
    \/ \E code \in {0, 1} : EncExit(code)
    \/ \E f \in OutFiles \cup FinalFiles(expected_total \div 100) : RenderVerify(f)
    \/ RenderFail
    \/ FinalGate

\* One-pass assembly up to the start of the encoder process.
SpecAsm == InitAsm /\ [][AsmNext]_vars

\* One-pass assembly with every step of render_episode taken when control
\* reaches it: the program is sequential, download() returns or raises
\* within its socket timeout and the probes within the timeout of run().
AsmStep ==
    \/ AsmPick
    \/ \E ev \in {"ok", "download_error", "dims_fail", "probe_error"} : AsmAttempt(ev)
    \/ AsmAcquireDone
    \/ AsmRepeat
    \/ AsmRepeatDone
    \/ AsmTrim
    \/ AsmCheck

\* Asset lists one entry shorter than those of SpecAsm.
InitAsmFair == InitAsm /\ Len(assets) < MaxAssets

SpecAsmFair == InitAsmFair /\ [][AsmNext]_vars /\ WF_vars(AsmStep)

\* One-pass assembly run twice on the same episode.
SpecTwin == InitTwin /\ [][TwinNext]_vars

\* dedupe_assets called on a list of search results.
SpecDedupe == InitDedupe /\ [][DedupeNext]_vars

\* build_tiered_queries called on a title, a description, a limit and a prefix.
SpecQueries == InitQueries /\ [][QueriesNext]_vars

\* apply_sensitive_query_policy called on a list of queries, and again on
\* the list it returned.
SpecPolicy == InitPolicy /\ [][PolicyNext]_vars

\* sprinkle_positions called with every outcome of rng.randint, and the
\* placing loop of ensure_clips run on what it returned.
SpecSprinkle == InitSprinkle /\ [][SprinkleNext]_vars

\* decide_next called on a queue mode and the rows of videos.csv.
SpecDecide == InitDecide /\ [][DecideNextStep]_vars

\* The supervised run with its stall detection, the encoder moving back and
\* forth between two output times.
SpecStall == InitStall /\ [][StallNext]_vars

\* The render function called on its own, up to the start of the encoder.
SpecGraph == InitGraph /\ [][GraphNext]_vars

\* One render invocation: the render function, the supervised run, verification.
SpecSup == InitSup /\ [][SupNext]_vars

\* The same, with every step of the program taken when it can be: a call
\* that is able to return returns, a branch that is enabled is executed.
\* Nothing is assumed about the encoder process: it may write or exit, or not.
ProgramStep ==
    \/ RenderCall
    \/ SupStart
    \/ SupTop
    \/ SupSelectReady
    \/ SupSelectIdle(DeadlineRun)
    \/ SupPoll
    \/ SupReadEof
    \/ SupReadFragment
    \/ SupReadLine
    \/ SupWait
    \/ SupFinally

SpecSupFair == SpecSup /\ WF_vars(ProgramStep)

(***************************************************************************)
(* Properties of the one-pass assembly, checked under SpecAsm.             *)
(***************************************************************************)
OneMs == TicksPerSec \div 1000

HundredMs == TicksPerSec \div 10

LastSeg == segments[Len(segments)]

FileDurOf(seg) == AssetById(seg.path).file_dur

RECURSIVE SumFileDur(_)
SumFileDur(s) == IF s = <<>> THEN 0 ELSE FileDurOf(s[1]) + SumFileDur(Tail(s))

AsmPastTrim == apc \in {"check", "assembled", "raised"} /\ aerr # "no Tier-1 assets found"

\* C1 (as amended): whenever one-pass assembly completes without raising, the
\* segment list is non-empty and its summed dur_sec equals the audio duration
\* within 1 ms; when it raises instead, either there is no Tier-1 asset, or
\* no segment could be acquired, or the last clip would be left shorter than
\* 100 ms by the trim.
C1_AssembledSumMatchesAudio ==
    /\ apc = "assembled" =>
         segments # <<>> /\ Abs(SumDur(segments) - audio_dur) <= OneMs
    /\ apc = "raised" =>
         \/ aerr = "no Tier-1 assets found"
              /\ \A i \in DOMAIN assets : assets[i].tier # 1
         \/ aerr = "failed to build segments matching audio duration"
              /\ segments = <<>>
         \/ aerr = "last clip too short after trim"
              /\ segments # <<>>
              /\ LastSeg.dur_sec - (SumDur(segments) - audio_dur) < HundredMs

\* C1, a state in which the claim's case happened: several clips were
\* assembled and the last one was trimmed.
C1_Witness == apc = "assembled" /\ Len(segments) >= 2 /\ trimmed.clip_index # 0

\* C1 as stated: for any non-empty (Tier-1) pool and any positive audio
\* duration the assembly ends with a segment list whose sum is within 1 ms
\* of the audio duration.
C1_AsStated ==
    (apc \in {"assembled", "raised"} /\ audio_dur > 0
        /\ \E i \in DOMAIN assets : assets[i].tier = 1)
    => (apc = "assembled" /\ Abs(SumDur(segments) - audio_dur) <= OneMs)

\* C2: whenever the encoder process has been started, the segments passed to
\* the render function are a non-empty list whose summed dur_sec equals the
\* audio duration (the main duration passed along) within 1 ms.
C2_EncoderStartedOnlyOnMatch ==
    popens > 0 =>
        /\ enc_segments # <<>>
        /\ Abs(SumDur(enc_segments) - audio_dur) <= OneMs
        /\ expected_total = (audio_dur + 2 * intro_silence) * 100

\* C2, its case: the encoder runs on a list that needed repetition and a trim.
C2_Witness == proc = "running" /\ trimmed.clip_index # 0 /\ RepIndex > 0

\* C3: a trim never leaves the last segment below 100 ms, no assembled list
\* holds a segment below 100 ms, and the assembly raises "last clip too short
\* after trim", leaving the render function uncalled, exactly when the last
\* clip's duration minus the accumulated excess is below 100 ms: a function
\* of the durations alone.
C3_TrimKeepsFloor ==
    /\ trimmed.clip_index # 0 => LastSeg.dur_sec >= HundredMs
    /\ apc \in {"check", "assembled"} =>
         \A i \in DOMAIN segments : segments[i].dur_sec >= HundredMs
    /\ AsmPastTrim /\ segments # <<>> =>
         LET excess == SumDur(segments) - audio_dur IN
         (2 * excess > OneMs /\ LastSeg.dur_sec - excess < HundredMs)
           <=> (apc = "raised" /\ aerr = "last clip too short after trim"
                /\ rpc = "idle" /\ trimmed.clip_index = 0)

\* C3, its case: the trim would have left less than 100 ms and the assembly raised.
C3_Witness == apc = "raised" /\ aerr = "last clip too short after trim"

\* The picks the acquisition loop has visited so far, in the order it visits
\* them, and the clips a visit without failures appends.
PickCycle == [k \in 1..attempts |-> picks[((k - 1) % Len(picks)) + 1]]

UsablePick(id) == ~AssetById(id).vertical /\ AssetById(id).file_dur * 1000 >= 16 * TicksPerSec * 1000

FullCount == Len(segments) - RepIndex

\* The scenario of the specification: audio of 47.250 s, and clips of 30 s,
\* 25 s and 40 s visited in that order, none failing.
Scenario ==
    /\ audio_dur * 1000 = 47250 * TicksPerSec
    /\ Len(picks) = 3
    /\ [i \in 1..3 |-> AssetById(picks[i]).file_dur]
         = <<30 * TicksPerSec, 25 * TicksPerSec, 40 * TicksPerSec>>
    /\ \A i \in 1..3 : ~AssetById(picks[i]).vertical
    /\ errs = 0

\* C4: at every point of the assembly every segment starts at 0, every
\* segment but the last has the full duration of its file, and no clip was
\* added after the cumulative duration had reached the audio duration.  Once
\* the list is built, the clips are those of the picks in the order they are
\* visited (cyclically, the unusable ones skipped), then repeated in list
\* order, and the last segment is its file shortened by exactly the
\* accumulated excess (left whole when the excess is at most 0.5 ms).  In the
\* scenario the list is 30 s, then 17.25 s.
C4_WholeClipsLastTrimmed ==
    LET n == Len(segments)
        excess == SumFileDur(segments) - audio_dur
    IN /\ \A i \in 1..n : segments[i].start_sec = 0
       /\ \A i \in 1..(n - 1) : segments[i].dur_sec = FileDurOf(segments[i])
       /\ \A i \in 1..(n - 1) : SumFileDur(SubSeq(segments, 1, i)) < audio_dur
       /\ apc \in {"check", "assembled"} =>
           /\ n >= 1 => LastSeg.dur_sec = IF 2 * excess > OneMs
                                          THEN FileDurOf(LastSeg) - excess
                                          ELSE FileDurOf(LastSeg)
           /\ errs = 0 =>
                /\ [j \in 1..FullCount |-> segments[j].path] = SelectSeq(PickCycle, UsablePick)
                /\ \A r \in 1..RepIndex :
                     segments[FullCount + r].path = segments[((r - 1) % FullCount) + 1].path
           /\ Scenario =>
                [i \in 1..n |-> segments[i].dur_sec]
                  = <<30 * TicksPerSec, (1725 * TicksPerSec) \div 100>>

\* C4, its case: the scenario has been assembled.
C4_Witness == apc = "assembled" /\ Scenario /\ trimmed.clip_index = 2

(***************************************************************************)
(* Properties of the supervised run and of verification, checked under     *)
(* SpecSup (C9 under SpecSupFair).                                         *)
(***************************************************************************)
\* An output time of out microseconds is beyond expected_total + 2 s + 2 / fps.
PastGuard(out) ==
    (out - expected_total) * TARGET_FPS > 2 * 1000000 * TARGET_FPS + 2 * 1000000

\* C5: whenever the supervisor has processed a progress event whose output
\* time is beyond expected_total_sec + 2 s + 2 frame periods, it has sent
\* terminate to the process if that was still running, it is raising the
\* runaway failure, and neither it nor the render function returns normally;
\* and the runaway failure is raised for no other output time.
C5_RunawayGuard ==
    /\ (last_out_sec >= 0 /\ PastGuard(last_out_sec)) =>
          /\ spc \in {"finally", "raised"}
          /\ serr = "ffmpeg runaway duration detected"
          /\ proc = "running" => term_sent >= 1
          /\ rpc # "returned"
    /\ serr = "ffmpeg runaway duration detected" =>
          last_out_sec >= 0 /\ PastGuard(last_out_sec)

\* C5, its case: a report beyond the guard was read and the failure has
\* left the supervisor and the render function.
C5_Witness ==
    /\ PastGuard(last_out_sec)
    /\ spc = "raised" /\ rpc = "raised" /\ rerr = "ffmpeg runaway duration detected"
    /\ term_sent >= 1

\* The hypothesis of the stall rule at time t.
StallDue(t) ==
    /\ t - last_advance_ts >= 240
    /\ t - start_ts >= 60
    /\ last_out_sec < expected_total - 250000

GoodOutput(f) ==
    f.exists /\ f.size >= 500 * 1024 /\ f.probeable /\ f.dur >= 5 * TicksPerSec

\* C8: the encoder process is started at most once, and only inside a render
\* call; the supervisor returns only when the process has exited with code 0
\* and no failure was raised; every failure of the supervisor (stall, runaway,
\* timeout, process error) leaves the render function as an error, without
\* verification; verification runs only after the supervisor returned; and
\* the render function returns only after a verification that passed.
C8_RenderStateMachine ==
    /\ popens <= 1
    /\ popens = 1 => rpc # "idle" /\ spc # "idle"
    /\ proc # "none" <=> popens = 1
    /\ spc = "returned" => proc = "exited" /\ rc = 0 /\ serr = ""
    /\ spc = "raised" => serr # "" /\ rpc \in {"run", "raised"}
    /\ (spc = "raised" /\ rpc = "raised") => rerr = serr /\ ~out_file.exists
    /\ (spc \in {"wait", "finally"} /\ proc = "exited" /\ rc # 0) => spc = "wait" \/ serr # ""
    /\ out_file.exists => spc = "returned"
    /\ rpc = "returned" => spc = "returned" /\ rc = 0 /\ GoodOutput(out_file)

\* C8, its case: COMPLETED -> VERIFIED, the render function has returned.
C8_Witness == rpc = "returned" /\ popens = 1 /\ blocks > 0

C10_VerificationGates ==
    /\ \A f \in OutFiles : \A mb \in {1024, 2048, 500 * 1024} :
         \A md \in {TicksPerSec \div 2, 5 * TicksPerSec} :
           VerifyOutputMedia(f, mb, md) = "" <=>
             (f.exists /\ f.size >= mb /\ f.probeable /\ f.dur >= md)
    /\ rpc = "returned" => GoodOutput(out_file)
    /\ (spc = "returned" /\ rpc = "raised") =>
         /\ rc = 0
         /\ ~GoodOutput(out_file)
         /\ rerr \in {"ffmpeg did not produce output", "ffmpeg output too small",
                      "ffmpeg output is not probeable", "ffmpeg output duration too short"}

\* C10, its case: the encoder exited with code 0 and left a 2 KB file that
\* probes to 0.2 s; verification failed.
C10_Witness ==
    /\ spc = "returned" /\ rc = 0 /\ rpc = "raised"
    /\ out_file = OutFile(TRUE, 2048, TRUE, 2000)

BadGraphInput ==
    \/ FileNames \ files # {}
    \/ segments = <<>>
    \/ \E i \in DOMAIN segments : segments[i].dur_sec <= 0

\* C12: when the intro/outro file, the frame image or the audio file is
\* missing, the segment list is empty or some segment has a non-positive
\* duration, no encoder process is ever started and the supervisor is never
\* entered; once called, the render function has raised, naming the missing
\* file first.
C12_NoEncoderOnBadInput ==
    /\ BadGraphInput => popens = 0 /\ proc = "none" /\ spc = "idle"
    /\ (BadGraphInput /\ rpc # "idle") => rpc = "raised" /\ rerr # ""
    /\ (rpc # "idle" /\ "intro_outro" \notin files) => rerr = "intro/outro mp4 not found"
    /\ (rpc # "idle" /\ FileNames \ files = {"frame"}) => rerr = "frame png not found"
    /\ (rpc # "idle" /\ FileNames \ files = {"audio"}) => rerr = "podcast audio not found"
    /\ (rpc # "idle" /\ files = FileNames /\ segments = <<>>) => rerr = "no segments provided"

\* C12, its case: all files exist, a segment of duration zero is passed, and
\* the render function raised without starting the encoder.
C12_Witness ==
    /\ rpc = "raised" /\ popens = 0
    /\ files = FileNames
    /\ \E i \in DOMAIN segments : segments[i].dur_sec = 0

KeyPair(a) == <<a.source, a.asset_id>>

\* The indices of the input at which a (source, asset_id) occurs first.
FirstOccurrences ==
    SelectSeq([i \in DOMAIN dd_assets |-> i],
              LAMBDA i : \A j \in 1..(i - 1) : KeyPair(dd_assets[j]) # KeyPair(dd_assets[i]))

\* C14: the list returned holds one entry per (source, asset_id) of the
\* input, in the order of the first occurrences of the keys; each entry is
\* an entry of the input with that key, and its tier is the lowest tier of
\* the input entries with that key.
C14_DedupeKeepsLowestTier ==
    dd_pc = "done" =>
        /\ Len(dd_out) = Len(FirstOccurrences)
        /\ \A j \in DOMAIN dd_out :
             /\ KeyPair(dd_out[j]) = KeyPair(dd_assets[FirstOccurrences[j]])
             /\ dd_out[j] \in {dd_assets[i] : i \in DOMAIN dd_assets}
             /\ \A i \in DOMAIN dd_assets :
                  KeyPair(dd_assets[i]) = KeyPair(dd_out[j]) => dd_out[j].tier <= dd_assets[i].tier

\* C14, its case: an asset found twice, the second time under a lower tier,
\* with another asset in between; the function has returned.
C14_Witness ==
    /\ dd_pc = "done"
    /\ \E i, j, k \in DOMAIN dd_assets :
         /\ i < j /\ j < k
         /\ KeyPair(dd_assets[i]) = KeyPair(dd_assets[k])
         /\ KeyPair(dd_assets[i]) # KeyPair(dd_assets[j])
         /\ dd_assets[k].tier < dd_assets[i].tier

(***************************************************************************)
(* build_tiered_queries                                                    *)
(***************************************************************************)
HasAlnum(s) == \E i \in 1..Len(s) : IsWord(s[i])

\* the query of an entry as the last loop stores it
Prefixed(q, lp) ==
    IF Strip(lp) # <<>>
    THEN NormalizeSpaces(Strip(lp) \o <<Blank>> \o NormalizeSpaces(q))
    ELSE NormalizeSpaces(q)

IsMatched(a) == \E k \in 1..Len(pl_ret.matched_terms) : LowerAtom(a) = pl_ret.matched_terms[k]

HasMatched(q) == \E j \in 1..Len(q) : IsMatched(q[j])

\* the tokens of q once its matched terms are taken out
Residue(q) == Split([j \in 1..Len(q) |-> IF IsMatched(q[j]) THEN Blank ELSE q[j]])

\* C17: applying the policy to the list it returned, with the same title and
\* description, returns that list again.
C17_FilteringIdempotent ==
    pl_pc = "refiltered" => pl_ret2.combined = pl_ret.combined

C17_Witness ==
    /\ pl_pc = "refiltered"
    /\ pl_ret.matched_terms # <<>>
    /\ pl_ret.queries_dropped # <<>>
    /\ \E i \in 1..Len(pl_ret.combined) :
          /\ ~InSeq(pl_ret.combined[i], pl_queries)
          /\ ~InSeq(pl_ret.combined[i], pl_ret.proxy_queries_added)
    /\ \E i \in 1..Len(pl_ret.combined) : InSeq(pl_ret.combined[i], pl_ret.proxy_queries_added)
    /\ pl_ret2.combined = pl_ret.combined
    /\ pl_ret2.queries_dropped = <<>>

\* C18: no query returned holds a matched term as a whole word, in any
\* spelling; an original query that holds one and keeps fewer than two
\* tokens once the matched terms are taken out is in queries_dropped and not
\* in the list returned.
C18_NoMatchedTermReturned ==
    pl_pc \in {"filtered", "refiltered"} =>
        /\ \A i \in 1..Len(pl_ret.combined) : ~HasMatched(pl_ret.combined[i])
        /\ \A k \in 1..Len(pl_ret.queries_original) :
              LET q == pl_ret.queries_original[k]
              IN (HasMatched(q) /\ Len(Residue(q)) < 2)
                    => (InSeq(q, pl_ret.queries_dropped) /\ ~InSeq(q, pl_ret.combined))

C18_Witness ==
    /\ pl_pc = "filtered"
    /\ \E k, l \in 1..Len(pl_ret.queries_original) :
          LET q == pl_ret.queries_original[k]
              r == pl_ret.queries_original[l]
          IN /\ HasMatched(q) /\ Len(Residue(q)) = 1
             /\ InSeq(q, pl_ret.queries_dropped)
             /\ HasMatched(r) /\ Len(Residue(r)) >= 2
             /\ InSeq(Join(Residue(r)), pl_ret.combined)

(***************************************************************************)
(* sprinkle_positions                                                      *)
(***************************************************************************)
\* C19: sprinkle_positions(10, 3, rng) returns, whatever rng.randint returns,
\* exactly 3 indices within 0..9, strictly increasing, no two of them adjacent.
C19_ThreeSeparatedPositions ==
    (sp_pc = "done" /\ sp_n_total = 10 /\ sp_n_generic = 3) =>
        /\ Len(sp_out) = 3
        /\ \A j \in 1..Len(sp_out) : sp_out[j] >= 0 /\ sp_out[j] <= 9
        /\ \A j \in 1..(Len(sp_out) - 1) : sp_out[j + 1] - sp_out[j] >= 2

C19_Witness ==
    /\ sp_pc = "done" /\ sp_n_total = 10 /\ sp_n_generic = 3
    /\ \E j \in 1..2 : sp_picks[j + 1] = sp_picks[j] + 1
    /\ Len(sp_out) = 3
    /\ \A j \in 1..2 : sp_out[j + 1] - sp_out[j] >= 2

(***************************************************************************)
(* The candidates of the one-pass assembly                                 *)
(***************************************************************************)
\* the main partition: the ids of the assets of tier 1 and tier 2
MainPartition == {assets[i].id : i \in {j \in 1..Len(assets) : assets[j].tier \in {1, 2}}}

\* C20 (as stated): the one-pass assembly draws its candidates from the main
\* partition, the assets of tier 1 and tier 2, so that a tier-2 asset can
\* become a segment: once the candidates are chosen they are the main
\* partition, and the assembly gives up for want of candidates only when that
\* partition is empty.
C20_AsStated ==
    apc \notin {"idle", "pick"} =>
        /\ {picks[j] : j \in 1..Len(picks)} = MainPartition
        /\ aerr = "no Tier-1 assets found" => MainPartition = {}

(***************************************************************************)
(* C21.  Vertical and short source files.                                  *)
(***************************************************************************)
\* C21, as stated: no segment of the assembly references a source file that
\* a probe of this run found vertical, or a file shorter than 16 s; such a
\* file is rejected before any segment is made from it.
C21_AsStated ==
    \A i \in DOMAIN segments :
        /\ segments[i].path \notin rejected
        /\ ~BelowMinAsset(AssetById(segments[i].path).file_dur)

\* The half of C21 that holds: no segment references a file below 16 s.
C21_NoShortSource ==
    \A i \in DOMAIN segments : ~BelowMinAsset(AssetById(segments[i].path).file_dur)

\* A segment that references a vertical file.
C21_VerticalSegment ==
    \E i \in DOMAIN segments : AssetById(segments[i].path).vertical

(***************************************************************************)
(* C22.  Errors of one attempt.                                            *)
(***************************************************************************)
\* An asset the acquisition can use: Tier 1, not vertical, at least 16 s.
Usable(a) == a.tier = 1 /\ ~a.vertical /\ ~BelowMinAsset(a.file_dur)

\* C22, as stated: an attempt that met a download or probe error adds no
\* segment (every attempt either fails or adds at most one whole clip), and
\* the assembly is aborted only when the pool holds no usable Tier-1 asset.
C22_AsStated ==
    /\ FullCount + errs <= attempts
    /\ apc = "raised" => ~\E i \in DOMAIN assets : Usable(assets[i])

\* The attempts of the first run that met an error raised inside the try
\* block: download() or ffprobe_duration_sec.
RaisedErrors ==
    Cardinality({k \in DOMAIN outcomes : outcomes[k] \in {"download_error", "probe_error"}})

\* The part of C22 that holds: an attempt whose download or duration probe
\* raised adds no segment, no provenance record and no duration, and the
\* loop goes on.
C22_RaisedErrorsAddNothing ==
    (run = 1 /\ apc \in {"acquire", "repeat", "trim"}) =>
        /\ FullCount + RaisedErrors <= attempts
        /\ Len(prov) = Len(segments)
        /\ d_sum = SumDur(segments)

ActiveRows ==
    {dn_rows[i] : i \in {j \in DOMAIN dn_rows :
                           dn_rows[j].podcast_id \in ActivePodcasts(dn_podcasts, dn_mode)}}

Unrendered == {r \in ActiveRows : r.rendered_asset_name = ""}

NotUploaded == {r \in ActiveRows : r.youtube_id = ""}

\* published_at, then guid
PublishedBefore(a, b) ==
    \/ RfcTs(a.published_at) < RfcTs(b.published_at)
    \/ /\ RfcTs(a.published_at) = RfcTs(b.published_at)
       /\ a.episode_guid < b.episode_guid

\* The decision names row r.
Names(r) == dn_out.guid = r.episode_guid /\ dn_out.podcast_id = r.podcast_id

\* C24, as stated: the rows of the active podcasts are taken in the order
\* of published_at then guid; 'render' is returned for the first row with
\* no rendered_asset_name, and 'upload', for the first row with no
\* youtube_id, only when every row has a rendered_asset_name.
C24_AsStated ==
    dn_pc = "done" =>
        /\ Unrendered # {} =>
             /\ dn_out.action = "render"
             /\ \E r \in Unrendered :
                   Names(r) /\ \A q \in Unrendered \ {r} : PublishedBefore(r, q)
        /\ dn_out.action = "upload" =>
             /\ Unrendered = {}
             /\ \E r \in NotUploaded :
                   Names(r) /\ \A q \in NotUploaded \ {r} : PublishedBefore(r, q)

\* What decide_next does: the rows of the active podcasts are taken in the
\* order of podcast_id, then published_at (0 for a date that does not
\* parse), then guid; 'render' is returned for the first row with no
\* rendered_asset_name, and 'upload', for the first row with no youtube_id,
\* only when every row of the active podcasts has a rendered_asset_name;
\* otherwise the action is 'none'.
C24_RenderBeforeUploadInKeyOrder ==
    dn_pc = "done" =>
        /\ Unrendered # {} =>
             /\ dn_out.action = "render"
             /\ \E r \in Unrendered :
                   Names(r) /\ \A q \in Unrendered \ {r} : KeyBefore(r, q)
        /\ (Unrendered = {} /\ NotUploaded # {}) =>
             /\ dn_out.action = "upload"
             /\ \E r \in NotUploaded :
                   Names(r) /\ \A q \in NotUploaded \ {r} : KeyBefore(r, q)
        /\ (Unrendered = {} /\ NotUploaded = {}) => dn_out.action = "none"
        /\ dn_out.action = "upload" => Unrendered = {}

\* Two active podcasts: the row returned for rendering belongs to the first
\* podcast and was published after a row of the second that is not
\* rendered either.
C24_Witness ==
    /\ dn_pc = "done"
    /\ dn_out.action = "render"
    /\ \E r, q \in Unrendered :
          /\ Names(r)
          /\ r.podcast_id < q.podcast_id
          /\ RfcTs(q.published_at) < RfcTs(r.published_at)

(***************************************************************************)
(* C25.  Termination of the assembly.                                      *)
(***************************************************************************)
\* C25: the acquisition loop makes at most 5 x (number of Tier-1
\* candidates) attempts, every iteration of the repetition phase adds a
\* strictly positive duration, and every run of the assembly ends, with a
\* segment list or with a raised failure.
C25_AssemblyTerminates ==
    /\ [](attempts <= ATTEMPTS_PER_PICK * Len(picks))
    /\ [][(apc = "repeat" /\ Len(segments') > Len(segments)) => d_sum' > d_sum]_vars
    /\ <>(apc \in {"assembled", "raised"})

\* An assembly that used every attempt it was allowed, went through the
\* repetition phase and ended with a segment list.
C25_Witness ==
    /\ apc = "assembled"
    /\ attempts = max_attempts
    /\ RepIndex >= 1

(***************************************************************************)
(* C26.  What restarts the stall window.                                   *)
(***************************************************************************)
\* The line being read completes a progress block whose out_time_ms is
\* missing, not a number, or at most 1 ms above the output time reported
\* before.
NoAdvanceRead ==
    /\ spc = "readline"
    /\ stdout_buf # <<>>
    /\ LET kv == StoreLine(progress_kv, Head(stdout_buf)) IN
          /\ kv.progress = "continue"
          /\ kv.out_time_ms <= last_out_sec + ADVANCE_EPS_US

\* C26: a progress event whose out_time_ms does not exceed the previously
\* reported output time by more than 1 ms, and a line taken from stderr by
\* the reader thread, leave last_advance_ts as it was; the stall check that
\* follows still measures from the last advance.
C26_OnlyAdvanceRestartsStallWindow ==
    [][((NoAdvanceRead /\ stdout_buf' = Tail(stdout_buf)) \/ last_stderr_ts' # last_stderr_ts)
         => last_advance_ts' = last_advance_ts]_vars

\* A progress event and a stderr line were taken after the last advance of
\* the output time, and the run was then failed as stalled.
C26_Witness ==
    /\ last_progress_ts > last_advance_ts
    /\ last_stderr_ts > last_advance_ts
    /\ serr = "ffmpeg stalled: out_time not advancing"
    /\ out_log.seq # <<>>

C29_ComparedWithPreviousReport ==
    \A i \in DOMAIN out_log.seq :
        out_log.seq[i].adv <=>
            (IF i = 1 THEN TRUE
             ELSE out_log.seq[i].out - out_log.seq[i - 1].out > ADVANCE_EPS_US)

\* The encoder reported 10 s, then 5 s, then 10 s again, and the third
\* report restarted the stall window.
C29_BackAndForth ==
    /\ Len(out_log.seq) = 3
    /\ [i \in 1..3 |-> out_log.seq[i].out] = <<10000000, 5000000, 10000000>>
    /\ out_log.seq[3].adv
    /\ backward_jumps = 1

(***************************************************************************)
(* C30.  The encoder process when the supervised run is left.              *)
(***************************************************************************)
\* The errors raised by the checks of the loop.
GuardErrors == {"ffmpeg timeout exceeded", "ffmpeg stalled: out_time not advancing",
                "ffmpeg runaway duration detected"}

\* C30: once run_ffmpeg_with_progress has returned or raised, the encoder
\* process it started has exited or has been sent a terminate signal; and
\* when the timeout, the stall check or the runaway guard fails the run, the
\* signal is sent before the error is raised, that is before the finally
\* block is entered.
C30_EncoderNeverLeftRunning ==
    /\ (SupDone /\ popens > 0) => (proc = "exited" \/ term_sent > 0)
    /\ (spc = "finally" /\ serr \in GuardErrors) => (proc = "exited" \/ term_sent > 0)
    /\ popens = 0 => proc = "none"

\* The run raised one of the three errors while the encoder was alive, and
\* the encoder was signalled by the check and again by the finally block.
C30_Witness ==
    /\ spc = "raised"
    /\ serr \in GuardErrors
    /\ proc = "running"
    /\ term_sent = 2

(***************************************************************************)
(* C28.  Source files used more than once.                                 *)
(***************************************************************************)
\* C28, as stated: a segment whose source path equals that of an earlier
\* segment was added by the repetition phase, and its provenance record
\* has mode "repeat".
C28_AsStated ==
    \A j \in DOMAIN segments :
        (\E i \in 1..(j - 1) : segments[i].path = segments[j].path)
            => (j \in DOMAIN prov /\ prov[j].mode = "repeat")

\* What holds: the entries added by the repetition phase, and only those,
\* have mode "repeat", and each of them copies an earlier segment.
C28_RepeatsCopyEarlierSegments ==
    /\ Len(prov) = Len(segments)
    /\ \A j \in DOMAIN prov :
          prov[j].mode = "repeat" =>
              \E i \in 1..(j - 1) : /\ segments[i].path = segments[j].path
                                    /\ prov[i].mode = "full"

\* The acquisition loop came back to an asset it had used and entered it a
\* second time as a whole clip.
C28_SameFileTwiceInFull ==
    \E i, j \in DOMAIN segments :
        /\ i < j
        /\ segments[i].path = segments[j].path
        /\ prov[i].mode = "full" /\ prov[j].mode = "full"
        /\ errs = 0

(***************************************************************************)
(* C27.  sprinkle_positions for every argument, and the placing loop.      *)
(***************************************************************************)
\* C27, as stated: for 0 < n_generic < n_total and every outcome of rng,
\* sprinkle_positions returns exactly n_generic indices within
\* 0..n_total-1, pairwise distinct and strictly increasing, and ensure_clips
\* places the clips without running past either clip list.
C27_AsStated ==
    (sp_pc \in {"done", "placed"} /\ 0 < sp_n_generic /\ sp_n_generic < sp_n_total) =>
        /\ Len(sp_out) = sp_n_generic
        /\ \A j \in 1..Len(sp_out) : sp_out[j] >= 0 /\ sp_out[j] <= sp_n_total - 1
        /\ \A j \in 1..(Len(sp_out) - 1) : sp_out[j] < sp_out[j + 1]
        /\ sp_place # "IndexError"

\* What holds for every argument: n_generic indices within range, in
\* non-decreasing order.
C27_InRangeAndSorted ==
    (sp_pc \in {"done", "placed"} /\ 0 < sp_n_generic /\ sp_n_generic < sp_n_total) =>
        /\ Len(sp_out) = sp_n_generic
        /\ \A j \in 1..Len(sp_out) : sp_out[j] >= 0 /\ sp_out[j] <= sp_n_total - 1
        /\ \A j \in 1..(Len(sp_out) - 1) : sp_out[j] <= sp_out[j + 1]

\* sprinkle_positions(5, 3, rng) returned an index twice and the placing
\* loop ran past the list of main clips.
C27_RepeatedIndex ==
    /\ sp_pc = "placed" /\ sp_n_total = 5 /\ sp_n_generic = 3
    /\ \E j \in 1..2 : sp_out[j] = sp_out[j + 1]
    /\ sp_place = "IndexError"

=============================================================================
